---- MODULE Spec2Model ----
(***************************************************************************)
(* SecureUpload: the upload controller (uploadHandler) together with the   *)
(* two VirusTotal utility modules of the repository, composed with a       *)
(* nondeterministic remote scanning service and blob store.                *)
(*                                                                         *)
(* Strings the code inspects (file names, scan handles) are sequences of   *)
(* one-character strings, so that toLowerCase, includes, startsWith and    *)
(* the 64-hex-digit test are computed, not assumed.                        *)
(* Time is counted in milliseconds; a remote call takes no time, which is  *)
(* the least favourable case for every separation between two calls.       *)
(***************************************************************************)
EXTENDS Integers, Sequences, FiniteSets, TLC

VARIABLES
  vtModule,     \* which utils/virusTotal.js the controller imports
  req,          \* the request: [userId, file]
  pc,           \* position of uploadHandler
  ext,          \* uploadHandler: const ext
  verdict,      \* uploadHandler: let verdict
  vtId,         \* uploadHandler: const vtId
  retryCount,   \* uploadHandler: let retryCount
  hash,         \* scanFile: const hash
  scanErr,      \* scanFile: the HTTP status of the error caught at the outer catch
  gaFollow,     \* getAnalysis: last_analysis_id being followed
  now,          \* elapsed time, ms
  requests,     \* history: outbound requests to the remote service
  scanAnswers,  \* history: the answers to the requests of scanFile
  steady,       \* history: every GET /files was answered like the first one
  polls,        \* history: outcome of every getAnalysis call
  sleeps,       \* history: duration of every setTimeout awaited
  scanOutcome,  \* history: how scanFile ended
  calls,        \* history: number of calls of scanFile, getAnalysis, uploadToCloudinary
  stored,       \* history: what uploadToCloudinary was asked to store
  responses,    \* history: responses sent on res
  caller,       \* the exported function that is called
  handle,       \* waitForAnalysis, getAnalysis: the parameter id
  wfaMaxRetries,\* waitForAnalysis: the parameter maxRetries
  retries,      \* waitForAnalysis: let retries
  gaCall,       \* history: the exchanges and the result of the latest getAnalysis call
  pollOutcome,  \* history: how the called waitForAnalysis or getAnalysis ended
  store,        \* the raw resources the blob store holds
  uploader,     \* history: who uploaded the n-th resource
  lastOp,       \* history: the latest listAll, deleteFile or deleteAllFiles and its answer
  other,        \* the locals of a second uploadHandler execution, suspended at an await
  auth          \* requireAuth: the header, the token, and what it did with the request

vars == <<vtModule, req, pc, ext, verdict, vtId, retryCount, hash, scanErr, gaFollow,
          now, requests, scanAnswers, steady, polls, sleeps, scanOutcome, calls, stored,
          responses, caller, handle, wfaMaxRetries, retries, gaCall, pollOutcome,
          store, uploader, lastOp, other, auth>>

\* the variables of a direct call of waitForAnalysis or getAnalysis
pollVars == <<caller, handle, wfaMaxRetries, retries, gaCall, pollOutcome>>

\* the variables of listAll, deleteFile and deleteAllFiles
storeVars == <<store, uploader, lastOp>>

\* the variables of the scan that uploadHandler and a direct call share
scanVars == <<vtModule, pc, gaFollow, now, requests, polls, sleeps, calls>>

\* the variables of uploadHandler and scanFile only
uploadVars == <<req, ext, verdict, vtId, retryCount, hash, scanErr, scanAnswers, steady,
                scanOutcome, stored, responses>>

----------------------------------------------------------------------------
(* Bounds of the model *)

\* largest detector count the remote service reports
MaxDetections == 1

\* longest file content, in bytes
MaxBufferLen == 1

----------------------------------------------------------------------------
(* Strings *)

UpperCase == <<"A","B","C","D","E","F","G","H","I","J","K","L","M",
               "N","O","P","Q","R","S","T","U","V","W","X","Y","Z">>
LowerCase == <<"a","b","c","d","e","f","g","h","i","j","k","l","m",
               "n","o","p","q","r","s","t","u","v","w","x","y","z">>

LowerChar(c) ==
  IF \E i \in 1..Len(UpperCase) : UpperCase[i] = c
  THEN LowerCase[CHOOSE i \in 1..Len(UpperCase) : UpperCase[i] = c]
  ELSE c

\* String.prototype.toLowerCase
ToLowerCase(s) == [i \in 1..Len(s) |-> LowerChar(s[i])]

\* String.prototype.includes
Includes(s, t) ==
  \E i \in 0..(Len(s) - Len(t)) : SubSeq(s, i + 1, i + Len(t)) = t

\* String.prototype.startsWith
StartsWith(s, t) == Len(s) >= Len(t) /\ SubSeq(s, 1, Len(t)) = t

HexDigits == <<"0","1","2","3","4","5","6","7","8","9","a","b","c","d","e","f">>
HexChars == {HexDigits[i] : i \in 1..Len(HexDigits)} \cup {"A","B","C","D","E","F"}

\* length of the hex digest of SHA-256
HashLen == 64

RECURSIVE SumBytes(_)
SumBytes(b) == IF b = <<>> THEN 0 ELSE Head(b) + SumBytes(Tail(b))

\* crypto.createHash('sha256').update(buffer).digest('hex'): a fixed function of
\* the bytes whose value is HashLen lower-case hex digits (a stand-in digest).
Sha256Hex(buffer) ==
  [i \in 1..HashLen |->
     HexDigits[((7 * SumBytes(buffer) + 3 * Len(buffer) + i) % 16) + 1]]

----------------------------------------------------------------------------
(* Inputs *)

NoUser == "<none>"
Users == {"user123"}

NoFile == [buffer |-> <<>>, mimetype |-> "", originalname |-> <<>>, size |-> -1]

Buffers == UNION {[1..n -> {7}] : n \in 0..MaxBufferLen}

Mimetypes == {"application/pdf", "application/x-sh", "application/x-nonexistent"}

\* mime.extension(mimetype): false for a type the table does not know
MimeExtension(m) ==
  CASE m = "application/pdf" -> "pdf"
    [] m = "text/plain" -> "txt"
    [] m = "application/x-sh" -> "sh"
    [] OTHER -> "false"

SizeLimit == 25 * 1024 * 1024

Sizes == {SizeLimit, SizeLimit + 1}

FileNames ==
  { <<"t","e","s","t",".","p","d","f">>,
    <<"e","i","c","a","r",".","c","o","m",".","t","x","t">>,
    <<"M","y","_","E","i","C","A","R",".","z","i","p">> }

Files ==
  [buffer : Buffers, mimetype : Mimetypes, originalname : FileNames, size : Sizes]

Requests == [userId : Users \cup {NoUser}, file : Files \cup {NoFile}]

VtModules == {"virusTotal.js", "part_001"}

----------------------------------------------------------------------------
(* The remote scanning service: what it may answer to each request.        *)
(* status 0 stands for an error without a response (network failure).      *)

NoId == <<>>
NoStats == [malicious |-> -1, suspicious |-> -1, harmless |-> -1]

Stats == [malicious : 0..MaxDetections, suspicious : 0..1, harmless : 0..1]

\* an analysis id issued by the service, and a record id other than the hash
AnalysisId == <<"a","n","-","1">>
FollowId == <<"a","n","-","2">>
RecordId == <<"r","e","c","-","1">>

\* one answer of the service: the HTTP status and the fields of the body the
\* code reads (data.data.id, last_analysis_stats or stats, last_analysis_id,
\* attributes.status, error.code)
Answers(statuses, ids, stats, lastIds, astatuses, codes) ==
  [status : statuses, id : ids, stats : stats, lastId : lastIds,
   astatus : astatuses, code : codes]

\* the caller of the specification in which two uploads are in progress at once
TwoUploads == "uploadHandler, twice"

\* one detection by one engine
Detected == [malicious |-> 1, suspicious |-> 0, harmless |-> 0]

\* while two uploads are in progress the service answers from a shorter list:
\* found with a detection, found with or without a last analysis, an analysis
\* completed with a detection, not found, bad request
Offered(a) ==
  caller = TwoUploads =>
    /\ a.status \in {200, 404, 400}
    /\ a.stats \in {NoStats, Detected}
    /\ a.id # RecordId
    /\ a.lastId # NoId => a.stats = NoStats
    /\ a.astatus \in {"", "completed"}
    /\ a.astatus = "completed" => a.stats = Detected
    /\ a.code = ""

\* GET /files/{hash}
FileAnswers(h) ==
  { a \in Answers({200}, {h, RecordId}, Stats \cup {NoStats}, {NoId, FollowId}, {""}, {""})
         \cup Answers({404, 429, 500, 0}, {NoId}, {NoStats}, {NoId}, {""}, {""}) :
      Offered(a) }

\* POST /files
UploadAnswers ==
  { a \in Answers({200}, {AnalysisId, NoId}, {NoStats}, {NoId}, {""}, {""})
         \cup Answers({409, 400, 429, 500, 0}, {NoId}, {NoStats}, {NoId}, {""}, {""}) :
      Offered(a) }

AnalysisStatuses == {"queued", "pending", "in-progress", "completed"}

\* GET /analyses/{id}
AnalysisAnswers ==
  { a \in Answers({200}, {NoId}, Stats \cup {NoStats}, {NoId}, AnalysisStatuses, {""})
         \cup Answers({429, 404, 500, 0}, {NoId}, {NoStats}, {NoId}, {""}, {""})
         \cup Answers({400}, {NoId}, {NoStats}, {NoId}, {""},
                      {"NotAvailableYet", "BadRequestError"}) :
      Offered(a) }

\* one outbound request, as the history records it
Request(ep, target, by) == [ep |-> ep, target |-> target, by |-> by, at |-> now]

\* what the history keeps of an answer scanFile received
ScanAnswer(a) == [status |-> a.status, id |-> a.id, malicious |-> a.stats.malicious]

\* the service answers this GET /files as it answered the first one of the run
SteadyWith(a) ==
  steady' = (steady /\ (scanAnswers = <<>> \/ ScanAnswer(a) = scanAnswers[1]))

----------------------------------------------------------------------------
(* uploadHandler: the checks before the scan *)

allowed == {"pdf", "png", "jpg", "jpeg", "docx", "txt", "zip", "exe"}

knownMaliciousNames ==
  { <<"e","i","c","a","r">>,
    <<"e","i","c","a","r",".","t","x","t">>,
    <<"e","i","c","a","r",".","c","o","m">>,
    <<"e","i","c","a","r","_","c","o","m",".","z","i","p">>,
    <<"e","i","c","a","r","c","o","m","2",".","z","i","p">> }

\* variant: the name is compared as written, without toLowerCase
CaseSensitiveKnownMalicious(originalname) ==
  \E name \in knownMaliciousNames : Includes(originalname, name)

\* knownMaliciousNames.some(name => file.originalname.toLowerCase().includes(name))
IsKnownMalicious(originalname) ==
  \E name \in knownMaliciousNames : Includes(ToLowerCase(originalname), name)

\* mime.extension(file.mimetype) || ''
ExtOf(file) ==
  IF MimeExtension(file.mimetype) = "false" THEN "" ELSE MimeExtension(file.mimetype)

Response(status, error, v, url) ==
  [status |-> status, error |-> error, verdict |-> v, url |-> url]

\* variant: the handler returns without answering
ReturnsSilently(r) == responses' = responses

\* res.status(...).json(...)
Respond(r) == responses' = Append(responses, r)

\* variant: the check of the user id is missing
AnyoneIsAuthenticated(userId) == TRUE

\* if (!userId) return res.status(401)
IsAuthenticated(userId) == userId # NoUser

\* uploadHandler from its entry to the call of scanFile
Entry ==
  /\ pc = "start"
  /\ UNCHANGED pollVars
  /\ UNCHANGED storeVars
  /\ UNCHANGED <<other, auth>>
  /\ UNCHANGED <<vtModule, req, vtId, retryCount, scanErr, gaFollow, now, requests,
                 scanAnswers, steady, polls, sleeps, scanOutcome, stored>>
  /\ IF ~IsAuthenticated(req.userId)
     THEN /\ Respond(Response(401, "User authentication required", "", "-"))
          /\ pc' = "done"
          /\ UNCHANGED <<ext, verdict, hash, calls>>
     ELSE IF req.file = NoFile
     THEN \* file.mimetype of undefined: TypeError, caught by the outer catch
          /\ Respond(Response(500, "Upload failed", "", "-"))
          /\ pc' = "done"
          /\ UNCHANGED <<ext, verdict, hash, calls>>
     ELSE IF ExtOf(req.file) \notin allowed
     THEN /\ Respond(Response(400, "Blocked extension", "", "-"))
          /\ ext' = ExtOf(req.file)
          /\ pc' = "done"
          /\ UNCHANGED <<verdict, hash, calls>>
     ELSE IF req.file.size > SizeLimit
     THEN /\ Respond(Response(400, "File too large", "", "-"))
          /\ ext' = ExtOf(req.file)
          /\ pc' = "done"
          /\ UNCHANGED <<verdict, hash, calls>>
     ELSE IF IsKnownMalicious(req.file.originalname)
     THEN /\ Respond(Response(200, "", "malicious", "null"))
          /\ ext' = ExtOf(req.file)
          /\ pc' = "done"
          /\ UNCHANGED <<verdict, hash, calls>>
     ELSE /\ ext' = ExtOf(req.file)
          /\ verdict' = "unknown"
          /\ calls' = [calls EXCEPT !.scanFile = @ + 1]
          /\ hash' = Sha256Hex(req.file.buffer)
          /\ pc' = "scanLookup"
          /\ UNCHANGED responses

----------------------------------------------------------------------------
(* uploadHandler: what it does with the outcome of scanFile and getAnalysis *)

\* const maxRetries = 3
maxRetries == 3

\* setTimeout(r, 5000) between two polls of uploadHandler
UploadPollDelayMs == 5000

\* const POLLING_INTERVAL_MS = 8000, the interval the utility module configures
POLLING_INTERVAL_MS == 8000

Returned(id) == [kind |-> "returned", id |-> id, message |-> "", status |-> 0]
Threw(message, status) ==
  [kind |-> "threw", id |-> NoId, message |-> message, status |-> status]

\* an error axios raises for a response with this status (0: no response)
HttpError(status) == Threw("AxiosError", status)

\* variant: a scanner error blocks the file
FailClosedVerdict == "malicious"

\* catch (vtError) { verdict = 'clean' }
VerdictOnSubmitError == "clean"

\* variant: without an id the verdict keeps its initial value
LeftUnknown == "unknown"

\* else { verdict = 'clean' }, when scanFile returned no id
VerdictOnNoId == "clean"

\* catch (analysisError), retryCount >= maxRetries - 1: verdict = 'clean'
VerdictOnPollError == "clean"

\* variant: the verdict is left pending after the loop
StaysPending == "pending"

\* if (verdict === 'pending') verdict = 'clean', after the loop
VerdictOnStillPending == "clean"

\* uploadHandler after await scanFile(...): if (vtId) the poll loop starts, else and
\* in catch (vtError) the verdict is clean
AfterScanFile(outcome) ==
  /\ scanOutcome' = outcome
  /\ IF outcome.kind = "returned" /\ outcome.id # NoId
     THEN /\ vtId' = outcome.id
          /\ verdict' = "pending"
          /\ retryCount' = 0
          /\ pc' = "poll"
     ELSE /\ verdict' = IF outcome.kind = "returned" THEN VerdictOnNoId
                        ELSE VerdictOnSubmitError
          /\ pc' = "decide"
          /\ UNCHANGED <<vtId, retryCount>>

\* what getAnalysis hands back: a completed result, data.data as the service
\* sent it, or an error
Completed(stats) == [kind |-> "returned", status |-> "completed", stats |-> stats,
                     message |-> "", http |-> 0]
RawResult(status, stats) ==
  [kind |-> "returned", status |-> status, stats |-> stats, message |-> "", http |-> 0]
PollThrew(message, http) ==
  [kind |-> "threw", status |-> "", stats |-> NoStats, message |-> message, http |-> http]

\* the synthetic result of utils/virusTotal.js
SyntheticClean == Completed([malicious |-> 0, suspicious |-> 0, harmless |-> 1])

\* variant: suspicious detections count as malicious
AnyDetectionVerdictOf(r) ==
  IF r.status = "completed"
  THEN (IF r.stats.malicious + r.stats.suspicious > 0 THEN "malicious" ELSE "clean")
  ELSE "pending"

\* r.attributes.status === 'completed'
\*   ? (r.attributes.stats.malicious > 0 ? 'malicious' : 'clean') : 'pending'
VerdictOf(r) ==
  IF r.status = "completed"
  THEN (IF r.stats.malicious > 0 THEN "malicious" ELSE "clean")
  ELSE "pending"

\* the poll loop's try block throws: getAnalysis threw, or stats is undefined
PollRaises(r) ==
  \/ r.kind = "threw"
  \/ r.kind = "returned" /\ r.status = "completed" /\ r.stats = NoStats

PollRecord(r) ==
  [outcome |-> IF r.kind = "threw" THEN "threw"
               ELSE IF r.status = "completed" THEN "completed" ELSE "pending",
   malicious |-> r.stats.malicious,
   message |-> r.message,
   at |-> now]

\* one iteration of the poll loop after await getAnalysis(...)
AfterGetAnalysis(r) ==
  /\ polls' = Append(polls, PollRecord(r))
  /\ IF PollRaises(r)
     THEN IF retryCount >= maxRetries - 1
          THEN verdict' = VerdictOnPollError /\ pc' = "decide"
          ELSE verdict' = verdict /\ pc' = "sleep"
     ELSE /\ verdict' = VerdictOf(r)
          /\ pc' = IF VerdictOf(r) = "pending" THEN "sleep" ELSE "decide"

\* await new Promise(r => setTimeout(r, 5000)); retryCount++; then the loop test
\* and, when the loop ends with the verdict pending, verdict = 'clean'
Sleep ==
  /\ pc = "sleep"
  /\ UNCHANGED pollVars
  /\ UNCHANGED storeVars
  /\ UNCHANGED <<other, auth>>
  /\ now' = now + UploadPollDelayMs
  /\ sleeps' = Append(sleeps, UploadPollDelayMs)
  /\ retryCount' = retryCount + 1
  /\ IF verdict = "pending" /\ retryCount + 1 < maxRetries
     THEN pc' = "poll" /\ verdict' = verdict
     ELSE pc' = "decide" /\ verdict' = IF verdict = "pending" THEN VerdictOnStillPending
                                      ELSE verdict
  /\ UNCHANGED <<vtModule, req, ext, vtId, hash, scanErr, gaFollow, requests,
                 scanAnswers, steady, polls, scanOutcome, calls, stored, responses>>

----------------------------------------------------------------------------
(* scanFile, in both utility modules *)

\* `file-${hash}`
SyntheticId(h) == <<"f","i","l","e","-">> \o h

\* variant: the hash is returned after the upload
UploadedIdIsHash(a, h) == Returned(h)

\* return data.data.id, after the upload succeeded
UploadedId(a, h) == Returned(a.id)

\* variant: part_001 returns the record id, as utils/virusTotal.js does
ExistingIdIsRecordId(a, h) == Returned(a.id)

\* the handle returned when the lookup by hash finds the file:
\* part_001 returns hash, utils/virusTotal.js returns response.data.data.id
ExistingId(a, h) ==
  IF vtModule = "part_001" THEN Returned(h) ELSE Returned(a.id)

\* variant: only 'not found' leads to the upload
FoundUnlessNotFound(a) == a.status # 404

\* variant: the lookup result is ignored and the file is always uploaded
LookupNeverFound(a) == FALSE

\* the lookup's try block returns: the file was found
LookupFound(a) == a.status = 200

\* scanFile: axios.get(`${VT}/files/${hash}`); any error leads to the upload
ScanLookup ==
  /\ pc = "scanLookup"
  /\ UNCHANGED pollVars
  /\ UNCHANGED storeVars
  /\ UNCHANGED <<other, auth>>
  /\ \E a \in FileAnswers(hash) :
       /\ requests' = Append(requests, Request("GET /files", hash, "scanFile"))
       /\ scanAnswers' = Append(scanAnswers, ScanAnswer(a))
       /\ SteadyWith(a)
       /\ IF LookupFound(a)
          THEN AfterScanFile(ExistingId(a, hash))
          ELSE /\ pc' = "scanUpload"
               /\ UNCHANGED <<verdict, vtId, retryCount, scanOutcome>>
  /\ UNCHANGED <<vtModule, req, ext, hash, scanErr, gaFollow, now, polls, sleeps,
                 calls, stored, responses>>

\* the outer catch of scanFile in part_001: 429 becomes RATE_LIMIT_EXCEEDED, every
\* other error is thrown on
ScanCatchPart001(status) ==
  IF status = 429 THEN Threw("RATE_LIMIT_EXCEEDED", 0) ELSE HttpError(status)

\* variant: every failed upload leads to the lookup being tried again
RetriesAfterAnyError(status) == status # 200

\* utils/virusTotal.js, the outer catch: error.response.status === 409, and
\* else if (error.response.status === 400)
RetriesLookup(status) == status \in {409, 400}

\* scanFile: axios.post(`${VT}/files`, form) and the outer catch
ScanUpload ==
  /\ pc = "scanUpload"
  /\ UNCHANGED pollVars
  /\ UNCHANGED storeVars
  /\ UNCHANGED <<other, auth>>
  /\ \E a \in UploadAnswers :
       /\ requests' = Append(requests, Request("POST /files", hash, "scanFile"))
       /\ scanAnswers' = Append(scanAnswers, ScanAnswer(a))
       /\ IF a.status = 200
          THEN AfterScanFile(UploadedId(a, hash)) /\ UNCHANGED scanErr
          ELSE IF vtModule = "part_001"
          THEN AfterScanFile(ScanCatchPart001(a.status)) /\ UNCHANGED scanErr
          ELSE IF RetriesLookup(a.status)
          THEN /\ scanErr' = a.status
               /\ pc' = "scanRetry"
               /\ UNCHANGED <<verdict, vtId, retryCount, scanOutcome>>
          ELSE AfterScanFile(HttpError(a.status)) /\ UNCHANGED scanErr
  /\ UNCHANGED <<vtModule, req, ext, hash, gaFollow, now, steady, polls, sleeps, calls,
                 stored, responses>>

\* variant: the outer catch hashes the file name instead of the bytes
RetryHashOfName == Sha256Hex(<<Len(req.file.originalname)>>)

\* utils/virusTotal.js, the outer catch: const hash =
\* crypto.createHash('sha256').update(buffer).digest('hex'), computed again
RetryHash == Sha256Hex(req.file.buffer)

\* utils/virusTotal.js, catch (hashError) after the 400: return `file-${hash}`
\* reads hash where no declaration of it is in scope (both are const inside a
\* try block), which raises a ReferenceError
SyntheticFallback == Threw("ReferenceError", 0)

\* utils/virusTotal.js: the lookup tried again after a 409 or a 400; when it
\* fails, its error is thrown after the 409 and the fallback is taken after the 400
ScanRetry ==
  /\ pc = "scanRetry"
  /\ UNCHANGED pollVars
  /\ UNCHANGED storeVars
  /\ UNCHANGED <<other, auth>>
  /\ \E a \in FileAnswers(RetryHash) :
       /\ requests' = Append(requests, Request("GET /files", RetryHash, "scanFile"))
       /\ scanAnswers' = Append(scanAnswers, ScanAnswer(a))
       /\ SteadyWith(a)
       /\ IF a.status = 200
          THEN AfterScanFile(Returned(a.id))
          ELSE IF scanErr = 409
          THEN AfterScanFile(HttpError(a.status))
          ELSE AfterScanFile(SyntheticFallback)
  /\ UNCHANGED <<vtModule, req, ext, hash, scanErr, gaFollow, now, polls, sleeps,
                 calls, stored, responses>>

----------------------------------------------------------------------------
(* getAnalysis, in both utility modules *)

\* variant: the pattern lacks the upper-case digits and the end anchor
LowerCaseUnanchored(id) ==
  Len(id) >= HashLen /\ \A i \in 1..HashLen : id[i] \in {HexDigits[k] : k \in 1..16}

\* /^[a-fA-F0-9]{64}$/.test(id)
IsFileHash(id) == Len(id) = HashLen /\ \A i \in 1..Len(id) : id[i] \in HexChars

\* id.startsWith('file-')
IsSyntheticId(id) == StartsWith(id, <<"f","i","l","e","-">>)

\* id.replace('file-', ''), for an id that starts with 'file-'
StripSynthetic(id) == SubSeq(id, 6, Len(id))

\* part_001, catch (fileError) and catch (analysisError) of the hash branch:
\* 429 becomes RATE_LIMIT_EXCEEDED, every other error is thrown on
FileCatchPart001(status) ==
  IF status = 429 THEN PollThrew("RATE_LIMIT_EXCEEDED", 0)
  ELSE PollThrew("AxiosError", status)

\* variant: an analysis still in progress is handed back as the service sent it
ReturnsUnfinished(a) ==
  IF a.status = 200 THEN RawResult(a.astatus, a.stats)
  ELSE IF a.status = 429 THEN PollThrew("RATE_LIMIT_EXCEEDED", 0)
  ELSE IF a.status = 400 /\ a.code = "NotAvailableYet"
  THEN PollThrew("ANALYSIS_PENDING", 0)
  ELSE PollThrew("AxiosError", a.status)

\* part_001, the answer of GET /analyses/{id} for a server-issued id
AnalysisResultPart001(a) ==
  IF a.status = 200
  THEN (IF a.astatus = "completed" THEN Completed(a.stats)
        ELSE PollThrew("ANALYSIS_PENDING", 0))
  ELSE IF a.status = 429 THEN PollThrew("RATE_LIMIT_EXCEEDED", 0)
  ELSE IF a.status = 400 /\ a.code = "NotAvailableYet"
  THEN PollThrew("ANALYSIS_PENDING", 0)
  ELSE PollThrew("AxiosError", a.status)

\* utils/virusTotal.js, the answer of GET /analyses/{id}: queued, pending and
\* every error become the synthetic clean result, anything else is data.data
AnalysisResultOld(a) ==
  IF a.status = 200
  THEN (IF a.astatus \in {"queued", "pending"} THEN SyntheticClean
        ELSE RawResult(a.astatus, a.stats))
  ELSE SyntheticClean

\* variant: the synthetic handle reports what the service knows about the file
SyntheticFromRecord(a) ==
  IF a.status = 200 /\ a.stats # NoStats THEN Completed(a.stats) ELSE SyntheticClean

\* utils/virusTotal.js, a handle with the prefix 'file-': the clean result,
\* whether GET /files/{hash} succeeds or fails
SyntheticResult(a) == SyntheticClean

\* part_001, the metadata of GET /files/{hash} when it embeds last_analysis_stats
EmbeddedStats(a) == Completed(a.stats)

\* the first request of one getAnalysis call
PollFirst ==
  /\ pc = "poll"
  /\ UNCHANGED pollVars
  /\ UNCHANGED storeVars
  /\ UNCHANGED <<other, auth>>
  /\ calls' = [calls EXCEPT !.getAnalysis = @ + 1]
  /\ IF vtModule = "part_001"
     THEN IF IsFileHash(vtId)
          THEN \E a \in FileAnswers(vtId) :
                 /\ requests' = Append(requests, Request("GET /files", vtId, "getAnalysis"))
                 /\ SteadyWith(a)
                 /\ IF a.status = 200 /\ a.stats # NoStats
                    THEN AfterGetAnalysis(EmbeddedStats(a)) /\ UNCHANGED gaFollow
                    ELSE IF a.status = 200 /\ a.lastId # NoId
                    THEN /\ gaFollow' = a.lastId
                         /\ pc' = "pollFollow"
                         /\ UNCHANGED <<verdict, polls>>
                    ELSE IF a.status = 200
                    THEN AfterGetAnalysis(PollThrew("ANALYSIS_PENDING", 0))
                         /\ UNCHANGED gaFollow
                    ELSE AfterGetAnalysis(FileCatchPart001(a.status))
                         /\ UNCHANGED gaFollow
          ELSE \E a \in AnalysisAnswers :
                 /\ requests' = Append(requests, Request("GET /analyses", vtId, "getAnalysis"))
                 /\ UNCHANGED steady
                 /\ AfterGetAnalysis(AnalysisResultPart001(a))
                 /\ UNCHANGED gaFollow
     ELSE IF IsSyntheticId(vtId)
          THEN \E a \in FileAnswers(StripSynthetic(vtId)) :
                 /\ requests' = Append(requests,
                                   Request("GET /files", StripSynthetic(vtId), "getAnalysis"))
                 /\ SteadyWith(a)
                 /\ AfterGetAnalysis(SyntheticResult(a))
                 /\ UNCHANGED gaFollow
          ELSE \E a \in AnalysisAnswers :
                 /\ requests' = Append(requests, Request("GET /analyses", vtId, "getAnalysis"))
                 /\ UNCHANGED steady
                 /\ AfterGetAnalysis(AnalysisResultOld(a))
                 /\ UNCHANGED gaFollow
  /\ UNCHANGED <<vtModule, req, ext, vtId, retryCount, hash, scanErr, now, scanAnswers,
                 sleeps, scanOutcome, stored, responses>>

\* part_001: the analysis named by last_analysis_id is fetched and handed back as
\* completed with its stats, whatever its status
FollowResult(a) ==
  IF a.status = 200 THEN Completed(a.stats) ELSE FileCatchPart001(a.status)

\* part_001: axios.get(`${VT}/analyses/${analysisId}`) for last_analysis_id
PollFollow ==
  /\ pc = "pollFollow"
  /\ UNCHANGED pollVars
  /\ UNCHANGED storeVars
  /\ UNCHANGED <<other, auth>>
  /\ \E a \in AnalysisAnswers :
       /\ requests' = Append(requests, Request("GET /analyses", gaFollow, "getAnalysis"))
       /\ AfterGetAnalysis(FollowResult(a))
  /\ UNCHANGED <<vtModule, req, ext, vtId, retryCount, hash, scanErr, gaFollow, now,
                 scanAnswers, steady, sleeps, scanOutcome, calls, stored, responses>>

----------------------------------------------------------------------------
(* uploadHandler: after the scan *)

\* variant: storage is handed the verdict the scan started with
StoreCallInitialVerdict ==
  [verdict |-> "unknown", originalName |-> req.file.originalname, userId |-> req.userId,
   tags |-> <<"unknown", req.userId>>]

\* uploadToCloudinary(buffer, publicId, verdict, originalName, userId)
StoreCall ==
  [verdict |-> verdict, originalName |-> req.file.originalname, userId |-> req.userId,
   tags |-> IF verdict # "" THEN <<verdict, req.userId>> ELSE <<req.userId>>]

\* variant: the malicious branch is missing
NeverBlocksStorage(v) == FALSE

\* if (verdict === 'malicious'): the answer without a url, and no upload
BlocksStorage(v) == v = "malicious"

\* the final verdict is logged, then a malicious file is answered without storage
Decide ==
  /\ pc = "decide"
  /\ UNCHANGED pollVars
  /\ UNCHANGED storeVars
  /\ UNCHANGED <<other, auth>>
  /\ IF BlocksStorage(verdict)
     THEN Respond(Response(200, "", "malicious", "null")) /\ pc' = "done"
     ELSE pc' = "store" /\ UNCHANGED responses
  /\ UNCHANGED <<vtModule, req, ext, verdict, vtId, retryCount, hash, scanErr,
                 gaFollow, now, requests, scanAnswers, steady, polls, sleeps,
                 scanOutcome, calls, stored>>

\* await uploadToCloudinary(...): the answer with the url, or 400 when it rejects
Store ==
  /\ pc = "store"
  /\ UNCHANGED pollVars
  /\ UNCHANGED storeVars
  /\ UNCHANGED <<other, auth>>
  /\ stored' = Append(stored, StoreCall)
  /\ calls' = [calls EXCEPT !.storage = @ + 1]
  /\ \E ok \in BOOLEAN :
       IF ok THEN Respond(Response(200, "", verdict, "secure_url"))
       ELSE Respond(Response(400, "Upload failed", "", "-"))
  /\ pc' = "done"
  /\ UNCHANGED <<vtModule, req, ext, verdict, vtId, retryCount, hash, scanErr,
                 gaFollow, now, requests, scanAnswers, steady, polls, sleeps,
                 scanOutcome>>

----------------------------------------------------------------------------
(* waitForAnalysis and getAnalysis called directly, outside uploadHandler *)

\* const MAX_RETRIES = 3, the default of the parameter maxRetries
MAX_RETRIES == 3

\* the hash of a file the caller scanned before
KnownHash == Sha256Hex(<<7>>)

\* the same kind of hash written with upper-case hex digits
UpperCaseHash == [i \in 1..HashLen |-> IF i % 2 = 0 THEN "A" ELSE "9"]

\* one hex digit short of a hash
ShortHex == [i \in 1..(HashLen - 1) |-> "a"]

\* one hex digit more than a hash
LongHex == [i \in 1..(HashLen + 1) |-> "b"]

\* as long as a hash, with one character that is no hex digit
NonHex == [i \in 1..HashLen |-> IF i = HashLen THEN "g" ELSE "c"]

\* the hashes scanFile of part_001 returns when the lookup finds the file
ScanFileHashes == {Sha256Hex(b) : b \in Buffers}

\* the ids a caller may pass
Handles ==
  {KnownHash, UpperCaseHash, ShortHex, AnalysisId, SyntheticId(KnownHash), LongHex, NonHex}
  \cup ScanFileHashes

\* the functions each module exports for polling
Callers(m) == IF m = "part_001" THEN {"waitForAnalysis", "getAnalysis"}
              ELSE {"getAnalysis"}

\* the values of maxRetries a caller may pass
RetryLimits == 0..MAX_RETRIES

NoResult == [kind |-> "none", status |-> "", stats |-> NoStats, message |-> "", http |-> 0]

\* one request of getAnalysis with the answer it received
Exchange(ep, a) == [ep |-> ep, answer |-> a]

NoCall == [exchanges |-> <<>>, result |-> NoResult]

\* setTimeout(resolve, POLLING_INTERVAL_MS * 2)
RateLimitDelayMs == POLLING_INTERVAL_MS * 2

\* variant: a rate-limited poll leaves the attempt budget untouched
RetriesKeptAfterRateLimit(r) == r

\* catch (error), RATE_LIMIT_EXCEEDED: retries++
RetriesAfterRateLimit(r) == r + 1

\* variant: every error of a poll is waited out and polled again
AnyErrorIsRateLimit(r) == r.kind = "threw"

\* error.message === 'RATE_LIMIT_EXCEEDED'
IsRateLimit(r) == r.kind = "threw" /\ r.message = "RATE_LIMIT_EXCEEDED"

\* variant: the test is made after the body, as in do ... while
TestedAfterBody(r, limit) == r = 0 \/ r < limit

\* while (retries < maxRetries)
LoopGoesOn(r, limit) == r < limit

\* the while test of waitForAnalysis, the wait before every poll but the first,
\* and after the loop throw new Error('ANALYSIS_TIMEOUT')
WfaLoop ==
  /\ pc = "wfaLoop"
  /\ IF LoopGoesOn(retries, wfaMaxRetries)
     THEN /\ IF retries > 0
             THEN /\ now' = now + POLLING_INTERVAL_MS
                  /\ sleeps' = Append(sleeps, POLLING_INTERVAL_MS)
             ELSE UNCHANGED <<now, sleeps>>
          /\ pc' = "gaFirst"
          /\ UNCHANGED pollOutcome
     ELSE /\ pollOutcome' = PollThrew("ANALYSIS_TIMEOUT", 0)
          /\ pc' = "done"
          /\ UNCHANGED <<now, sleeps>>
  /\ UNCHANGED <<vtModule, gaFollow, requests, polls, calls, caller, handle,
                 wfaMaxRetries, retries, gaCall>>
  /\ UNCHANGED uploadVars
  /\ UNCHANGED storeVars
  /\ UNCHANGED <<other, auth>>

\* waitForAnalysis after await getAnalysis(id, key): a completed result is
\* returned, a rate limit is waited out, any other error is thrown on
AfterWfaPoll(r) ==
  IF r.kind = "returned"
  THEN IF r.status = "completed"
       THEN /\ pollOutcome' = r
            /\ pc' = "done"
            /\ UNCHANGED <<retries, now, sleeps>>
       ELSE /\ retries' = retries + 1
            /\ pc' = "wfaLoop"
            /\ UNCHANGED <<pollOutcome, now, sleeps>>
  ELSE IF IsRateLimit(r)
  THEN /\ now' = now + RateLimitDelayMs
       /\ sleeps' = Append(sleeps, RateLimitDelayMs)
       /\ retries' = RetriesAfterRateLimit(retries)
       /\ pc' = "wfaLoop"
       /\ UNCHANGED pollOutcome
  ELSE /\ pollOutcome' = r
       /\ pc' = "done"
       /\ UNCHANGED <<retries, now, sleeps>>

\* getAnalysis hands r back to its caller
GaReturn(exchanges, r) ==
  /\ gaCall' = [exchanges |-> exchanges, result |-> r]
  /\ polls' = Append(polls, PollRecord(r))
  /\ IF caller = "waitForAnalysis"
     THEN AfterWfaPoll(r)
     ELSE /\ pollOutcome' = r
          /\ pc' = "done"
          /\ UNCHANGED <<retries, now, sleeps>>

\* getAnalysis goes on to fetch the analysis named by last_analysis_id
GaGoesOn(exchanges, analysisId) ==
  /\ gaFollow' = analysisId
  /\ gaCall' = [exchanges |-> exchanges, result |-> NoResult]
  /\ pc' = "gaFollow"
  /\ UNCHANGED <<polls, pollOutcome, retries, now, sleeps>>

\* part_001, the hash branch after GET /files/{id} was answered
FileResultPart001(a) ==
  IF a.status = 200 /\ a.stats # NoStats THEN EmbeddedStats(a)
  ELSE IF a.status = 200 THEN PollThrew("ANALYSIS_PENDING", 0)
  ELSE FileCatchPart001(a.status)

\* variant: last_analysis_id is looked at before last_analysis_stats
PrefersLastAnalysis(a) == a.status = 200 /\ a.lastId # NoId

\* part_001, the hash branch: the analysis named by last_analysis_id is fetched
FollowsLastAnalysis(a) == a.status = 200 /\ a.stats = NoStats /\ a.lastId # NoId

\* getAnalysis(id, key): its first request
GaFirst ==
  /\ pc = "gaFirst"
  /\ calls' = [calls EXCEPT !.getAnalysis = @ + 1]
  /\ IF vtModule = "part_001"
     THEN IF IsFileHash(handle)
          THEN \E a \in FileAnswers(handle) :
                 /\ requests' = Append(requests, Request("GET /files", handle, "getAnalysis"))
                 /\ IF FollowsLastAnalysis(a)
                    THEN GaGoesOn(<<Exchange("GET /files", a)>>, a.lastId)
                    ELSE /\ GaReturn(<<Exchange("GET /files", a)>>, FileResultPart001(a))
                         /\ UNCHANGED gaFollow
          ELSE \E a \in AnalysisAnswers :
                 /\ requests' = Append(requests, Request("GET /analyses", handle, "getAnalysis"))
                 /\ GaReturn(<<Exchange("GET /analyses", a)>>, AnalysisResultPart001(a))
                 /\ UNCHANGED gaFollow
     ELSE IF IsSyntheticId(handle)
          THEN \E a \in FileAnswers(StripSynthetic(handle)) :
                 /\ requests' = Append(requests,
                                   Request("GET /files", StripSynthetic(handle), "getAnalysis"))
                 /\ GaReturn(<<Exchange("GET /files", a)>>, SyntheticResult(a))
                 /\ UNCHANGED gaFollow
          ELSE \E a \in AnalysisAnswers :
                 /\ requests' = Append(requests, Request("GET /analyses", handle, "getAnalysis"))
                 /\ GaReturn(<<Exchange("GET /analyses", a)>>, AnalysisResultOld(a))
                 /\ UNCHANGED gaFollow
  /\ UNCHANGED <<vtModule, caller, handle, wfaMaxRetries>>
  /\ UNCHANGED uploadVars
  /\ UNCHANGED storeVars
  /\ UNCHANGED <<other, auth>>

\* part_001: axios.get(`${VT}/analyses/${analysisId}`) for last_analysis_id
GaFollow ==
  /\ pc = "gaFollow"
  /\ \E a \in AnalysisAnswers :
       /\ requests' = Append(requests, Request("GET /analyses", gaFollow, "getAnalysis"))
       /\ GaReturn(Append(gaCall.exchanges, Exchange("GET /analyses", a)), FollowResult(a))
  /\ UNCHANGED <<vtModule, gaFollow, calls, caller, handle, wfaMaxRetries>>
  /\ UNCHANGED uploadVars
  /\ UNCHANGED storeVars
  /\ UNCHANGED <<other, auth>>

----------------------------------------------------------------------------
(* The blob store: uploadToCloudinary, listAll, deleteFile, deleteAllFiles.  *)
(* A resource is immutable once stored and its public id is never issued     *)
(* twice, so each handler is one step; the failures of the store's calls are *)
(* choices of the step.                                                      *)

\* most resources ever uploaded in one behaviour
MaxStored == 2

\* req.userId of a request that carries no verified token
NoUserId == <<>>

\* the subjects two verified tokens carry: 'user123' and 'otherUser'
StoreUsers ==
  { <<"u","s","e","r","1","2","3">>,
    <<"o","t","h","e","r","U","s","e","r">> }

CleanText == <<"c","l","e","a","n">>
MaliciousText == <<"m","a","l","i","c","i","o","u","s">>
UnknownText == <<"u","n","k","n","o","w","n">>

\* the verdicts a caller of uploadToCloudinary passes
StoredVerdicts == {CleanText, MaliciousText}

StoredNames ==
  { <<"t","e","s","t",".","p","d","f">>,
    <<"M","y","_","E","i","C","A","R",".","z","i","p">> }

\* the n-th public id: `${crypto.randomUUID()}.${ext}`, distinct for distinct n
PublicId(n) == [i \in 1..n |-> "x"]

NullUrl == <<>>
SecureUrl(publicId) == <<"/">> \o publicId

NoContext == [verdict |-> <<>>, originalName |-> <<>>, userId |-> <<>>]

\* the options uploadToCloudinary passes to upload_stream, and the stored resource
UploadToCloudinary(publicId, v, originalName, userId) ==
  [ public_id |-> publicId,
    secure_url |-> SecureUrl(publicId),
    tags |-> IF v # <<>> THEN <<v, userId>> ELSE <<userId>>,
    context |-> [verdict |-> v, originalName |-> originalName, userId |-> userId] ]

\* Array.prototype.includes on the tags
TagsInclude(tags, t) == \E i \in 1..Len(tags) : tags[i] = t

\* variant: a search without the tag term
MatchesAny(r, userId) == TRUE

\* the expression `resource_type:raw AND tags:${userId}`
Matches(r, userId) == TagsInclude(r.tags, userId)

Search(userId) == {r \in store : Matches(r, userId)}

\* how the store's API renders a resource: the context entries directly under
\* context or under context.custom, the tags present or left out
Renderings == [custom : BOOLEAN, tags : BOOLEAN]

Rendered(r, how) ==
  [ public_id |-> r.public_id,
    secure_url |-> r.secure_url,
    tags |-> IF how.tags THEN r.tags ELSE <<>>,
    context |-> IF how.custom THEN NoContext ELSE r.context,
    custom |-> IF how.custom THEN r.context ELSE NoContext ]

VerdictWords ==
  {MaliciousText, CleanText, UnknownText, <<"p","e","n","d","i","n","g">>}

\* listAll: verdict from r.context.verdict, else r.context.custom.verdict
ContextVerdict(r) ==
  IF r.context.verdict # <<>> THEN ToLowerCase(r.context.verdict)
  ELSE IF r.custom.verdict # <<>> THEN ToLowerCase(r.custom.verdict)
  ELSE UnknownText

\* listAll: the first verdict word among the tags when the context gave none
TagVerdict(r) ==
  LET found == {i \in 1..Len(r.tags) : ToLowerCase(r.tags[i]) \in VerdictWords}
  IN IF Len(r.tags) > 0 /\ ContextVerdict(r) = UnknownText /\ found # {}
     THEN ToLowerCase(r.tags[CHOOSE i \in found : \A j \in found : i <= j])
     ELSE ContextVerdict(r)

\* listAll: the name from the context, else from context.custom, else the public id
ListedName(r) ==
  IF r.context.originalName # <<>> THEN r.context.originalName
  ELSE IF r.custom.originalName # <<>> THEN r.custom.originalName
  ELSE r.public_id

\* variant: the listing trusts the stored verdict whatever the name
NeverOverridden(originalName) == FALSE

\* listAll: the name check that overrides the verdict
OverridesVerdict(originalName) == IsKnownMalicious(originalName)

ListedVerdict(r) ==
  IF OverridesVerdict(ListedName(r)) THEN MaliciousText ELSE TagVerdict(r)

\* listAll: url: verdict === 'malicious' ? null : r.secure_url
ListedUrl(v, r) == IF v = MaliciousText THEN NullUrl ELSE r.secure_url

\* one entry of the array listAll answers with
ListedFile(r, userId) ==
  [ id |-> r.public_id,
    originalName |-> ListedName(r),
    url |-> ListedUrl(ListedVerdict(r), r),
    verdict |-> ListedVerdict(r),
    userId |-> IF r.context.userId # <<>> THEN r.context.userId ELSE userId ]

\* variant: deleteFile without the ownership test
OwnsAny(fileInfo, userId) == TRUE

\* deleteFile: !( !userIdInTags && fileUserId !== userId )
Owns(fileInfo, userId) ==
  TagsInclude(fileInfo.tags, userId) \/ fileInfo.context.userId = userId

NoFileInfo == Rendered(UploadToCloudinary(<<>>, <<>>, <<>>, <<>>), [custom |-> FALSE, tags |-> FALSE])

Op(op, by, fileId, status, error, files, fileInfo, destroyed) ==
  [ op |-> op, by |-> by, fileId |-> fileId, status |-> status, error |-> error,
    files |-> files, fileInfo |-> fileInfo, destroyed |-> destroyed ]

NoOp == Op("none", NoUserId, <<>>, 0, "", {}, NoFileInfo, {})

\* a handler of the store answers; destroyed: the public ids it called destroy on
Answer(op, by, fileId, status, error, files, fileInfo, destroyed) ==
  lastOp' = Op(op, by, fileId, status, error, files, fileInfo, destroyed)

StoreIdle == /\ store = {} /\ uploader = <<>> /\ lastOp = NoOp

\* a caller stores one more resource
PutFile ==
  /\ pc = "serve"
  /\ Len(uploader) < MaxStored
  /\ \E userId \in StoreUsers, v \in StoredVerdicts, originalName \in StoredNames :
       /\ store' = store \cup
            {UploadToCloudinary(PublicId(Len(uploader) + 1), v, originalName, userId)}
       /\ uploader' = Append(uploader, userId)
  /\ lastOp' = NoOp
  /\ UNCHANGED <<scanVars, uploadVars, pollVars, other, auth>>

ListAll ==
  /\ pc = "serve"
  /\ \E userId \in StoreUsers \cup {NoUserId} :
       IF userId = NoUserId
       THEN Answer("listAll", userId, <<>>, 401, "User authentication required",
                   {}, NoFileInfo, {})
       ELSE \/ \E how \in Renderings :
                 Answer("listAll", userId, <<>>, 200, "",
                        {ListedFile(Rendered(r, how), userId) : r \in Search(userId)},
                        NoFileInfo, {})
            \/ Answer("listAll", userId, <<>>, 500, "Failed to list files",
                      {}, NoFileInfo, {})
  /\ UNCHANGED <<store, uploader, scanVars, uploadVars, pollVars, other, auth>>

DeleteFile ==
  /\ pc = "serve"
  /\ \E userId \in StoreUsers \cup {NoUserId},
        fileId \in {PublicId(n) : n \in 0..MaxStored} :
       IF userId = NoUserId
       THEN /\ Answer("deleteFile", userId, fileId, 401, "User authentication required",
                      {}, NoFileInfo, {})
            /\ store' = store
       ELSE IF fileId = <<>>
       THEN /\ Answer("deleteFile", userId, fileId, 400, "File ID is required",
                      {}, NoFileInfo, {})
            /\ store' = store
       ELSE IF \A r \in store : r.public_id # fileId
       THEN /\ Answer("deleteFile", userId, fileId, 404, "File not found",
                      {}, NoFileInfo, {})
            /\ store' = store
       ELSE \/ /\ Answer("deleteFile", userId, fileId, 500, "Failed to delete file",
                         {}, NoFileInfo, {})
               /\ store' = store
            \/ \E r \in store, custom \in BOOLEAN :
                 LET fileInfo == Rendered(r, [custom |-> custom, tags |-> TRUE])
                 IN /\ r.public_id = fileId
                    /\ IF ~Owns(fileInfo, userId)
                       THEN /\ Answer("deleteFile", userId, fileId, 403,
                                      "You do not have permission to delete this file",
                                      {}, fileInfo, {})
                            /\ store' = store
                       ELSE \/ /\ Answer("deleteFile", userId, fileId, 200, "",
                                         {}, fileInfo, {fileId})
                               /\ store' = store \ {r}
                            \/ /\ Answer("deleteFile", userId, fileId, 500,
                                         "Failed to delete file", {}, fileInfo, {fileId})
                               /\ store' = store
  /\ UNCHANGED <<uploader, scanVars, uploadVars, pollVars, other, auth>>

DeleteAllFiles ==
  /\ pc = "serve"
  /\ \E userId \in StoreUsers \cup {NoUserId} :
       IF userId = NoUserId
       THEN /\ Answer("deleteAllFiles", userId, <<>>, 401, "User authentication required",
                      {}, NoFileInfo, {})
            /\ store' = store
       ELSE \/ /\ Answer("deleteAllFiles", userId, <<>>, 500, "Failed to delete files",
                         {}, NoFileInfo, {})
               /\ store' = store
            \/ \E deleted \in SUBSET Search(userId) :
                 /\ Answer("deleteAllFiles", userId, <<>>, 200, "", {}, NoFileInfo,
                           {r.public_id : r \in Search(userId)})
                 /\ store' = store \ deleted
  /\ UNCHANGED <<uploader, scanVars, uploadVars, pollVars, other, auth>>

----------------------------------------------------------------------------
(* Two uploadHandler executions in one process. Every variable of             *)
(* uploadHandler, scanFile and getAnalysis is declared inside the function,   *)
(* so each execution has its own; the event loop resumes one execution while  *)
(* the other waits at an await.                                               *)

\* the locals of the running execution, with the histories kept for it
Frame ==
  [ req |-> req, pc |-> pc, ext |-> ext, verdict |-> verdict, vtId |-> vtId,
    retryCount |-> retryCount, hash |-> hash, scanErr |-> scanErr,
    gaFollow |-> gaFollow, now |-> now, requests |-> requests,
    scanAnswers |-> scanAnswers, steady |-> steady, polls |-> polls,
    sleeps |-> sleeps, scanOutcome |-> scanOutcome, calls |-> calls,
    stored |-> stored, responses |-> responses ]

NoFrame == [pc |-> "none"]

\* the positions at which an execution waits for a promise, has not begun, or is over
AwaitPoints ==
  {"start", "scanLookup", "scanUpload", "scanRetry", "poll", "pollFollow", "sleep",
   "store", "done"}

\* variant: retryCount is declared once for the module, not once per execution
SharedRetryCount(frame) == retryCount

\* let retryCount = 0, declared inside the try block of uploadHandler
ResumedRetryCount(frame) == frame.retryCount

\* the running execution waits and the other one is resumed
Switch ==
  /\ caller = TwoUploads
  /\ pc \in AwaitPoints
  /\ other.pc # "done"
  /\ other' = Frame
  /\ req' = other.req
  /\ pc' = other.pc
  /\ ext' = other.ext
  /\ verdict' = other.verdict
  /\ vtId' = other.vtId
  /\ retryCount' = ResumedRetryCount(other)
  /\ hash' = other.hash
  /\ scanErr' = other.scanErr
  /\ gaFollow' = other.gaFollow
  /\ now' = other.now
  /\ requests' = other.requests
  /\ scanAnswers' = other.scanAnswers
  /\ steady' = other.steady
  /\ polls' = other.polls
  /\ sleeps' = other.sleeps
  /\ scanOutcome' = other.scanOutcome
  /\ calls' = other.calls
  /\ stored' = other.stored
  /\ responses' = other.responses
  /\ UNCHANGED vtModule
  /\ UNCHANGED pollVars
  /\ UNCHANGED storeVars
  /\ UNCHANGED auth

----------------------------------------------------------------------------
(* requireAuth, the middleware in front of every protected route *)

\* 'Bearer '
BearerPrefix == <<"B","e","a","r","e","r"," ">>

\* req.headers.authorization: absent (empty), or a scheme, spaces and credentials
AuthHeaders ==
  LET schemes == { <<"B","e","a","r","e","r">>, <<"b","e","a","r","e","r">>,
                   <<"B","a","s","i","c">> }
      separators == { <<>>, <<" ">>, <<" "," ">> }
      credentials == { <<>>, <<"t">>, <<"t","t">>, <<"e","y","J">>, <<"t"," ","u">> }
  IN {<<>>} \cup {s \o sep \o c : s \in schemes, sep \in separators, c \in credentials}

\* s.split(' ')[1]: what lies between the first space and the next one; empty
\* also when s has no space
SecondField(s) ==
  LET spaces == {i \in 1..Len(s) : s[i] = " "}
  IN IF spaces = {} THEN <<>>
     ELSE LET first == CHOOSE i \in spaces : \A j \in spaces : i <= j
              later == {i \in spaces : i > first}
          IN IF later = {} THEN SubSeq(s, first + 1, Len(s))
             ELSE SubSeq(s, first + 1,
                         (CHOOSE i \in later : \A j \in later : i <= j) - 1)

\* clerkClient.verifyToken(token): it throws, or resolves to claims with or
\* without sub and sid
Verifications ==
  [ throws : {TRUE}, sub : {<<>>}, sid : {<<>>} ]
  \cup [ throws : {FALSE}, sub : {<<>>} \cup StoreUsers, sid : {<<>>, <<"s","1">>} ]

NoAuth ==
  [ pc |-> "none", header |-> <<>>, token |-> <<>>, userId |-> <<>>,
    sessionId |-> <<>>, replies |-> <<>>, handled |-> 0 ]

\* res.status(status).json({ message }), then return
Reject(status, message) ==
  auth' = [auth EXCEPT !.replies = Append(@, [status |-> status, message |-> message]),
                       !.pc = "done"]

\* variant: any header with credentials is taken for a bearer token
AnyScheme(authHeader) == authHeader # <<>>

\* !( !authHeader || !authHeader.startsWith('Bearer ') )
IsBearer(authHeader) == authHeader # <<>> /\ StartsWith(authHeader, BearerPrefix)

\* requireAuth up to await clerkClient.verifyToken(token)
AuthParse ==
  /\ auth.pc = "auth"
  /\ IF ~IsBearer(auth.header)
     THEN Reject(401, "Authentication required")
     ELSE IF SecondField(auth.header) = <<>>
     THEN Reject(401, "No token provided")
     ELSE auth' = [auth EXCEPT !.token = SecondField(auth.header), !.pc = "verify"]
  /\ UNCHANGED <<scanVars, uploadVars, pollVars, storeVars, other>>

\* the token verified and if (!sub) passed
Accepted(v) == ~v.throws /\ v.sub # <<>>

\* requireAuth after the verification: req.userId = sub and next(), or 401
AuthVerify ==
  /\ auth.pc = "verify"
  /\ \E v \in Verifications :
       IF v.throws
       THEN Reject(401, "Invalid or expired token")
       ELSE IF ~Accepted(v)
       THEN Reject(401, "Invalid token: missing user ID")
       ELSE auth' = [auth EXCEPT !.userId = v.sub, !.sessionId = v.sid,
                                 !.handled = @ + 1, !.pc = "next"]
  /\ UNCHANGED <<scanVars, uploadVars, pollVars, storeVars, other>>

NoOutcome == [kind |-> "none", id |-> NoId, message |-> "", status |-> 0]

Init ==
  /\ vtModule \in VtModules
  /\ req \in Requests
  /\ pc = "start"
  /\ ext = ""
  /\ verdict = ""
  /\ vtId = NoId
  /\ retryCount = 0
  /\ hash = NoId
  /\ scanErr = 0
  /\ gaFollow = NoId
  /\ now = 0
  /\ requests = <<>>
  /\ scanAnswers = <<>>
  /\ steady = TRUE
  /\ polls = <<>>
  /\ sleeps = <<>>
  /\ scanOutcome = NoOutcome
  /\ calls = [scanFile |-> 0, getAnalysis |-> 0, storage |-> 0]
  /\ stored = <<>>
  /\ responses = <<>>
  /\ caller = "uploadHandler"
  /\ handle = NoId
  /\ wfaMaxRetries = MAX_RETRIES
  /\ retries = 0
  /\ gaCall = NoCall
  /\ pollOutcome = NoResult
  /\ StoreIdle
  /\ other = NoFrame
  /\ auth = NoAuth

Next ==
  \/ Entry
  \/ ScanLookup
  \/ ScanUpload
  \/ ScanRetry
  \/ PollFirst
  \/ PollFollow
  \/ Sleep
  \/ Decide
  \/ Store

Spec == Init /\ [][Next]_vars

\* every awaited call returns or fails
FairSpec == Spec /\ WF_vars(Next)

\* a caller other than uploadHandler calls waitForAnalysis(id, key, maxRetries)
\* of part_001, or getAnalysis(id, key) of either module, once, maxRetries
\* being one of limits
CalledWith(limits) ==
  /\ vtModule \in VtModules
  /\ caller \in Callers(vtModule)
  /\ handle \in Handles
  /\ wfaMaxRetries \in (IF caller = "waitForAnalysis" THEN limits ELSE {MAX_RETRIES})
  /\ pc = IF caller = "waitForAnalysis" THEN "wfaLoop" ELSE "gaFirst"
  /\ retries = 0
  /\ gaCall = NoCall
  /\ pollOutcome = NoResult
  /\ gaFollow = NoId
  /\ now = 0
  /\ requests = <<>>
  /\ polls = <<>>
  /\ sleeps = <<>>
  /\ calls = [scanFile |-> 0, getAnalysis |-> 0, storage |-> 0]
  /\ req = [userId |-> NoUser, file |-> NoFile]
  /\ ext = ""
  /\ verdict = ""
  /\ vtId = NoId
  /\ retryCount = 0
  /\ hash = NoId
  /\ scanErr = 0
  /\ scanAnswers = <<>>
  /\ steady = TRUE
  /\ scanOutcome = NoOutcome
  /\ stored = <<>>
  /\ responses = <<>>
  /\ StoreIdle
  /\ other = NoFrame
  /\ auth = NoAuth

PollInit == CalledWith(RetryLimits)

\* maxRetries is a number the caller chooses: it may be negative
AnyLimitInit == CalledWith((-1)..MAX_RETRIES)

PollNext ==
  \/ WfaLoop
  \/ GaFirst
  \/ GaFollow

PollSpec == PollInit /\ [][PollNext]_vars

AnyLimitSpec == AnyLimitInit /\ [][PollNext]_vars

\* every awaited request and timer of the call settles
FairPollSpec == PollSpec /\ WF_vars(PollNext)

\* several users upload, list and delete through the routes of the server
StoreInit ==
  /\ StoreIdle
  /\ other = NoFrame
  /\ auth = NoAuth
  /\ pc = "serve"
  /\ vtModule = "part_001"
  /\ caller = "routes"
  /\ handle = NoId
  /\ wfaMaxRetries = MAX_RETRIES
  /\ retries = 0
  /\ gaCall = NoCall
  /\ pollOutcome = NoResult
  /\ gaFollow = NoId
  /\ now = 0
  /\ requests = <<>>
  /\ polls = <<>>
  /\ sleeps = <<>>
  /\ calls = [scanFile |-> 0, getAnalysis |-> 0, storage |-> 0]
  /\ req = [userId |-> NoUser, file |-> NoFile]
  /\ ext = ""
  /\ verdict = ""
  /\ vtId = NoId
  /\ retryCount = 0
  /\ hash = NoId
  /\ scanErr = 0
  /\ scanAnswers = <<>>
  /\ steady = TRUE
  /\ scanOutcome = NoOutcome
  /\ stored = <<>>
  /\ responses = <<>>

StoreNext ==
  \/ PutFile
  \/ ListAll
  \/ DeleteFile
  \/ DeleteAllFiles

StoreSpec == StoreInit /\ [][StoreNext]_vars

\* an upload of an allowed, small, unmarked file by an authenticated user
PassingRequest(buffer) ==
  [ userId |-> "user123",
    file |-> [ buffer |-> buffer, mimetype |-> "application/pdf",
               originalname |-> <<"t","e","s","t",".","p","d","f">>,
               size |-> SizeLimit ] ]

\* two uploads of different files arrive; neither handler has begun
PairInit ==
  /\ vtModule \in VtModules
  /\ req = PassingRequest(<<7>>)
  /\ pc = "start"
  /\ ext = ""
  /\ verdict = ""
  /\ vtId = NoId
  /\ retryCount = 0
  /\ hash = NoId
  /\ scanErr = 0
  /\ gaFollow = NoId
  /\ now = 0
  /\ requests = <<>>
  /\ scanAnswers = <<>>
  /\ steady = TRUE
  /\ polls = <<>>
  /\ sleeps = <<>>
  /\ scanOutcome = NoOutcome
  /\ calls = [scanFile |-> 0, getAnalysis |-> 0, storage |-> 0]
  /\ stored = <<>>
  /\ responses = <<>>
  /\ caller = TwoUploads
  /\ handle = NoId
  /\ wfaMaxRetries = MAX_RETRIES
  /\ retries = 0
  /\ gaCall = NoCall
  /\ pollOutcome = NoResult
  /\ StoreIdle
  /\ other = [Frame EXCEPT !.req = PassingRequest(<<>>)]
  /\ auth = NoAuth

PairNext ==
  \/ Next
  \/ Switch

PairSpec == PairInit /\ [][PairNext]_vars

\* one request with any Authorization header arrives at a protected route
AuthInit ==
  /\ auth \in {[NoAuth EXCEPT !.pc = "auth", !.header = h] : h \in AuthHeaders}
  /\ StoreIdle
  /\ other = NoFrame
  /\ pc = "middleware"
  /\ vtModule = "part_001"
  /\ caller = "routes"
  /\ handle = NoId
  /\ wfaMaxRetries = MAX_RETRIES
  /\ retries = 0
  /\ gaCall = NoCall
  /\ pollOutcome = NoResult
  /\ gaFollow = NoId
  /\ now = 0
  /\ requests = <<>>
  /\ polls = <<>>
  /\ sleeps = <<>>
  /\ calls = [scanFile |-> 0, getAnalysis |-> 0, storage |-> 0]
  /\ req = [userId |-> NoUser, file |-> NoFile]
  /\ ext = ""
  /\ verdict = ""
  /\ vtId = NoId
  /\ retryCount = 0
  /\ hash = NoId
  /\ scanErr = 0
  /\ scanAnswers = <<>>
  /\ steady = TRUE
  /\ scanOutcome = NoOutcome
  /\ stored = <<>>
  /\ responses = <<>>

AuthNext ==
  \/ AuthParse
  \/ AuthVerify

AuthSpec == AuthInit /\ [][AuthNext]_vars

----------------------------------------------------------------------------
(* Properties *)

Finished == pc = "done"

\* the scan stage is over: the final verdict is known
AfterScan == pc \in {"decide", "store", "done"} /\ calls.scanFile > 0

\* the request is authenticated and its file has an allowed type and size
PassesFileChecks ==
  /\ req.userId # NoUser
  /\ req.file # NoFile
  /\ ExtOf(req.file) \in allowed
  /\ req.file.size <= SizeLimit

\* the original name, in any letter case, contains a known-malicious marker
NameHasMarker ==
  \E m \in knownMaliciousNames :
    \E i \in 0..(Len(req.file.originalname) - Len(m)) :
      \A k \in 1..Len(m) : LowerChar(req.file.originalname[i + k]) = m[k]

MaliciousAnswer == Response(200, "", "malicious", "null")

\* C1: an upload that passes authentication and the type and size checks and whose
\* original name contains a known-malicious marker, in any letter case, is answered
\* with verdict malicious and url null, and scanFile, getAnalysis, the remote
\* service and blob storage are never called for it.
C1_BlocklistAnswersWithoutScan ==
  (PassesFileChecks /\ NameHasMarker) =>
    /\ calls = [scanFile |-> 0, getAnalysis |-> 0, storage |-> 0]
    /\ requests = <<>>
    /\ stored = <<>>
    /\ pc \in {"start", "done"}
    /\ Finished => responses = <<MaliciousAnswer>>

C1_Witness ==
  /\ Finished
  /\ PassesFileChecks
  /\ NameHasMarker
  /\ req.file.originalname # ToLowerCase(req.file.originalname)
  /\ responses = <<MaliciousAnswer>>

\* C2: a poll that returns a completed analysis with a detector count decides the
\* verdict: malicious when the malicious count is above 0, clean when it is 0,
\* whatever the other counts and whatever polls failed or were pending before it;
\* it is the last poll, and the answer that carries a verdict carries that one.
C2_CompletedPollDecidesVerdict ==
  \A i \in 1..Len(polls) :
    (polls[i].outcome = "completed" /\ polls[i].malicious >= 0) =>
      /\ i = Len(polls)
      /\ verdict = IF polls[i].malicious > 0 THEN "malicious" ELSE "clean"
      /\ \A k \in 1..Len(responses) :
           responses[k].verdict \in {"", verdict}
      /\ (Finished /\ verdict = "malicious") => responses = <<MaliciousAnswer>>

C2_Witness ==
  /\ Finished
  /\ Len(polls) = maxRetries
  /\ polls[1].outcome = "threw"
  /\ polls[2].outcome = "threw"
  /\ polls[3].outcome = "completed"
  /\ polls[3].malicious > 0
  /\ responses = <<MaliciousAnswer>>

\* C3: blob storage is never called for a file whose verdict is malicious: a
\* malicious verdict is answered with url null and without a storage write, and
\* what storage is asked to keep carries the verdict clean or unknown.
C3_MaliciousNeverStored ==
  /\ \A i \in 1..Len(stored) : stored[i].verdict \in {"clean", "unknown"}
  /\ (verdict = "malicious" /\ pc \in {"store", "done"}) =>
       /\ Finished
       /\ stored = <<>>
       /\ calls.storage = 0
       /\ responses = <<MaliciousAnswer>>
  /\ \A k \in 1..Len(responses) :
       responses[k].verdict = "malicious" => (responses[k].url = "null" /\ stored = <<>>)

C3_Witness ==
  /\ Finished
  /\ verdict = "malicious"
  /\ Len(polls) >= 1
  /\ stored = <<>>

StorageFailedAnswer == Response(400, "Upload failed", "", "-")

\* every poll made threw, and the loop gave up
EveryPollThrew ==
  /\ polls # <<>>
  /\ \A i \in 1..Len(polls) : polls[i].outcome = "threw"
  /\ AfterScan

\* C4: when scanFile throws, or getAnalysis throws at every attempt, whatever the
\* error (rate limit included), the verdict is clean, the file goes to storage with
\* that verdict, and the only error answer possible is the one of a failed storage
\* write.
C4_ScannerErrorsFailOpen ==
  (AfterScan /\ (scanOutcome.kind = "threw" \/ EveryPollThrew)) =>
    /\ verdict = "clean"
    /\ pc = "decide" => stored = <<>> /\ responses = <<>>
    /\ pc = "store" => stored = <<>> /\ responses = <<>>
    /\ Finished =>
         /\ Len(stored) = 1
         /\ stored[1].verdict = "clean"
         /\ responses \in { <<Response(200, "", "clean", "secure_url")>>,
                            <<StorageFailedAnswer>> }

C4_Witness ==
  /\ Finished
  /\ EveryPollThrew
  /\ Len(polls) = maxRetries
  /\ \E i \in 1..Len(polls) : polls[i].message = "RATE_LIMIT_EXCEEDED"
  /\ responses = <<Response(200, "", "clean", "secure_url")>>

\* every poll made reported pending: a result that is not completed, or the
\* ANALYSIS_PENDING error
EveryPollPending ==
  /\ polls # <<>>
  /\ \A i \in 1..Len(polls) :
       \/ polls[i].outcome = "pending"
       \/ polls[i].outcome = "threw" /\ polls[i].message = "ANALYSIS_PENDING"

\* C5: when every poll reports pending, uploadHandler ends with the verdict clean
\* after exactly maxRetries polls, any two consecutive polls being at least
\* POLLING_INTERVAL_MS (8 seconds) apart.
C5_PendingPollsSpacedByInterval ==
  (AfterScan /\ EveryPollPending) =>
    /\ verdict = "clean"
    /\ Len(polls) = maxRetries
    /\ \A i \in 1..(Len(polls) - 1) :
         polls[i + 1].at - polls[i].at >= POLLING_INTERVAL_MS

\* scanFile ended with the rate-limit error: RATE_LIMIT_EXCEEDED of part_001, or
\* the 429 error that utils/virusTotal.js throws on
SubmitRateLimited ==
  /\ scanOutcome.kind = "threw"
  /\ (scanOutcome.message = "RATE_LIMIT_EXCEEDED" \/ scanOutcome.status = 429)

\* C6: when scanFile fails with the rate-limit error, uploadHandler goes on at once
\* with the verdict clean: no poll, no sleep, no time spent waiting, at most the
\* three requests scanFile itself made, and one answer for the stored file.
C6_SubmitRateLimitedEndsClean ==
  SubmitRateLimited =>
    /\ AfterScan
    /\ verdict = "clean"
    /\ polls = <<>>
    /\ calls.getAnalysis = 0
    /\ sleeps = <<>>
    /\ now = 0
    /\ Len(requests) <= 3
    /\ Finished => (Len(responses) = 1 /\ Len(stored) = 1
                    /\ stored[1].verdict = "clean")

C6_Witness ==
  /\ Finished
  /\ scanOutcome.kind = "threw"
  /\ scanOutcome.message = "RATE_LIMIT_EXCEEDED"
  /\ responses = <<Response(200, "", "clean", "secure_url")>>

\* the service knows the hash, its metadata embeds last_analysis_stats with
\* malicious > 0, and it answered every GET /files of the run that way
KnownMaliciousRecord ==
  /\ scanAnswers # <<>>
  /\ scanAnswers[1].status = 200
  /\ scanAnswers[1].malicious > 0
  /\ steady

\* C7, as claimed: for a hash the service knows with embedded stats malicious > 0,
\* scanFile followed by the polling of getAnalysis (part_001) ends with the verdict
\* malicious after exactly one request in total.
C7_KnownMaliciousOneRequest ==
  (AfterScan /\ vtModule = "part_001" /\ KnownMaliciousRecord) =>
    (verdict = "malicious" /\ Len(requests) = 1)

\* C7, amended: with scanFile and getAnalysis of part_001, for a hash the service
\* knows with embedded stats malicious > 0, the scan ends with the verdict
\* malicious after exactly two requests, both GET /files/{hash}: the lookup of
\* scanFile and the metadata fetch of the single getAnalysis call; nothing is
\* uploaded, no analysis is fetched and no sleep is made.
C7_KnownMaliciousTwoRequests ==
  (AfterScan /\ vtModule = "part_001" /\ KnownMaliciousRecord) =>
    /\ verdict = "malicious"
    /\ Len(requests) = 2
    /\ \A i \in 1..Len(requests) :
         requests[i].ep = "GET /files" /\ requests[i].target = hash
    /\ requests[1].by = "scanFile" /\ requests[2].by = "getAnalysis"
    /\ calls.getAnalysis = 1
    /\ sleeps = <<>>

C7_Witness ==
  /\ Finished
  /\ vtModule = "part_001"
  /\ KnownMaliciousRecord
  /\ Len(requests) = 2
  /\ responses = <<MaliciousAnswer>>

ScanStage == {"scanLookup", "scanUpload", "scanRetry", "poll", "pollFollow", "sleep"}

FinalVerdicts == {"clean", "malicious", "unknown"}

\* C8: provided every awaited call returns or fails, an execution that enters the
\* scan stage leaves it, and it leaves it with one verdict among clean, malicious
\* and unknown, which does not change afterwards; the verdict pending never
\* outlives the stage.
C8_ScanStageEndsWithVerdict ==
  /\ (pc \in ScanStage) ~> AfterScan
  /\ [](AfterScan => verdict \in FinalVerdicts)
  /\ [][AfterScan => (AfterScan' /\ verdict' = verdict)]_vars

C8_Witness ==
  /\ pc = "decide"
  /\ Len(polls) = maxRetries
  /\ Len(sleeps) = maxRetries
  /\ \A i \in 1..Len(polls) : polls[i].outcome = "pending"
  /\ verdict = "clean"

\* C9: when the first lookup by hash finds a record, scanFile returns a handle for
\* it, the hash or the id of the record, after that single request: POST /files is
\* never sent in that call.
C9_FoundLookupSkipsUpload ==
  (scanAnswers # <<>> /\ scanAnswers[1].status = 200) =>
    /\ Len(scanAnswers) = 1
    /\ scanOutcome.kind = "returned"
    /\ scanOutcome.id # NoId
    /\ scanOutcome.id \in {hash, scanAnswers[1].id}
    /\ \A i \in 1..Len(requests) : requests[i].ep # "POST /files"

C9_Witness ==
  /\ vtModule = "virusTotal.js"
  /\ Len(scanAnswers) = 1
  /\ scanAnswers[1].status = 200
  /\ scanOutcome = Returned(RecordId)
  /\ pc = "poll"

\* C10: when the lookup answers 404 and the upload succeeds, scanFile has sent
\* exactly one POST /files, right after the lookup, and returns the id of the
\* upload answer, which is not the hash.
C10_NotFoundUploadsOnce ==
  (Len(scanAnswers) >= 2 /\ scanAnswers[1].status = 404 /\ scanAnswers[2].status = 200) =>
    /\ Len(scanAnswers) = 2
    /\ requests[2].ep = "POST /files"
    /\ Cardinality({i \in 1..Len(requests) : requests[i].ep = "POST /files"}) = 1
    /\ scanOutcome = Returned(scanAnswers[2].id)
    /\ scanOutcome.id # hash

C10_Witness ==
  /\ Len(scanAnswers) = 2
  /\ scanAnswers[1].status = 404
  /\ scanAnswers[2].status = 200
  /\ scanOutcome = Returned(AnalysisId)
  /\ vtId = AnalysisId
  /\ pc = "poll"

\* scanFile has returned or thrown
ScanEnded == scanOutcome.kind # "none"

\* the second request of scanFile, the upload, was answered 409 or 400
UploadRejected == Len(scanAnswers) >= 2 /\ scanAnswers[2].status \in {409, 400}

\* C11: when the upload is answered 409 or 400, scanFile tries the lookup by hash
\* again exactly once and does not throw: it returns the id of the record found,
\* or, when that lookup fails too, a handle derived from the hash.
C11_RejectedUploadRetriesLookup ==
  (ScanEnded /\ UploadRejected) =>
    /\ Len(scanAnswers) = 3
    /\ requests[3].ep = "GET /files"
    /\ requests[3].target = hash
    /\ scanOutcome.kind = "returned"
    /\ scanAnswers[3].status # 200 => scanOutcome.id \in {hash, SyntheticId(hash)}

\* C12: whenever a request of scanFile, the lookup or the upload, is answered 429,
\* scanFile ends by throwing the error RATE_LIMIT_EXCEEDED: it neither returns a
\* handle nor throws another error.
C12_RateLimitSurfacesAsItsOwnError ==
  (ScanEnded /\ \E i \in 1..Len(scanAnswers) : scanAnswers[i].status = 429) =>
    scanOutcome = Threw("RATE_LIMIT_EXCEEDED", 0)

\* the requests scanFile has sent
ScanRequests == {i \in 1..Len(requests) : requests[i].by = "scanFile"}

\* C13, as claimed: one call of scanFile sends at least one and at most two
\* requests, on every path.
C13_ScanFileOneOrTwoRequests ==
  /\ Cardinality(ScanRequests) <= 2
  /\ ScanEnded => Cardinality(ScanRequests) >= 1

\* C13, amended: one call of scanFile sends at least one and at most three
\* requests: the lookup, the upload and, only in utils/virusTotal.js when the
\* upload was answered 409 or 400, the lookup once more; scanFile of part_001
\* sends at most two.
C13_ScanFileUpToThreeRequests ==
  /\ Cardinality(ScanRequests) = Len(scanAnswers)
  /\ Cardinality(ScanRequests) <= 3
  /\ ScanEnded =>
       /\ Cardinality(ScanRequests) >= 1
       /\ Cardinality(ScanRequests) = 3 <=>
            (vtModule = "virusTotal.js" /\ UploadRejected)
  /\ Len(scanAnswers) = 3 =>
       /\ requests[1].ep = "GET /files"
       /\ requests[2].ep = "POST /files"
       /\ requests[3].ep = "GET /files"

C13_Witness ==
  /\ ScanEnded
  /\ Cardinality(ScanRequests) = 3
  /\ scanAnswers[1].status = 404
  /\ scanAnswers[2].status = 409
  /\ scanAnswers[3].status = 200
  /\ scanOutcome = Returned(RecordId)

\* the latest getAnalysis call has handed its result back
GaEnded == gaCall.result.kind # "none"

\* the exchange that ended the latest getAnalysis call
LastExchange == gaCall.exchanges[Len(gaCall.exchanges)]

\* C14: for a handle that has the shape of a hash and whose file metadata embeds
\* last_analysis_stats, getAnalysis of part_001 returns a completed result that
\* carries exactly those stats after the single request GET /files/{hash}; no
\* analysis is fetched, even when the metadata names a last_analysis_id.
C14_EmbeddedStatsCompleteAtOnce ==
  (/\ vtModule = "part_001"
   /\ IsFileHash(handle)
   /\ gaCall.exchanges # <<>>
   /\ gaCall.exchanges[1].answer.status = 200
   /\ gaCall.exchanges[1].answer.stats # NoStats) =>
    /\ gaCall.result = Completed(gaCall.exchanges[1].answer.stats)
    /\ Len(gaCall.exchanges) = 1
    /\ gaCall.exchanges[1].ep = "GET /files"
    /\ requests[Len(requests)].ep = "GET /files"
    /\ requests[Len(requests)].target = handle
    /\ pc # "gaFollow"
    /\ caller = "getAnalysis" => Len(requests) = 1

C14_Witness ==
  /\ vtModule = "part_001"
  /\ handle = UpperCaseHash
  /\ Len(gaCall.exchanges) = 1
  /\ gaCall.exchanges[1].answer.lastId = FollowId
  /\ gaCall.result = Completed([malicious |-> 1, suspicious |-> 0, harmless |-> 1])
  /\ pollOutcome = gaCall.result

\* an answer of GET /analyses that says the analysis is not finished: status
\* queued or pending, or the error NotAvailableYet
PendingAnswer(a) ==
  \/ a.status = 200 /\ a.astatus \in {"queued", "pending"}
  \/ a.status = 400 /\ a.code = "NotAvailableYet"

\* a result of getAnalysis that reports pending
PendingResult(r) ==
  \/ r.kind = "threw" /\ r.message = "ANALYSIS_PENDING"
  \/ r.kind = "returned" /\ r.status # "completed"

\* C15: for a handle that has the shape of a hash and whose metadata has no
\* embedded stats but names a last_analysis_id, getAnalysis of part_001 fetches
\* that analysis and classifies the answer as it does for a server-issued id:
\* completed only when the analysis has status completed, ANALYSIS_PENDING when
\* it is queued, pending or not available yet.
C15_FollowedAnalysisClassifiedAlike ==
  (vtModule = "part_001" /\ GaEnded /\ Len(gaCall.exchanges) = 2) =>
    /\ LastExchange.ep = "GET /analyses"
    /\ requests[Len(requests)].target = gaCall.exchanges[1].answer.lastId
    /\ gaCall.result.status = "completed" =>
         (LastExchange.answer.status = 200 /\ LastExchange.answer.astatus = "completed")
    /\ PendingAnswer(LastExchange.answer) =>
         gaCall.result = PollThrew("ANALYSIS_PENDING", 0)

\* C16: when GET /analyses answers with status queued or pending, or with the
\* error NotAvailableYet, the getAnalysis call reports pending; it never hands
\* back a completed result for such an answer.
C16_PendingAnswerReportedPending ==
  (GaEnded /\ LastExchange.ep = "GET /analyses" /\ PendingAnswer(LastExchange.answer)) =>
    PendingResult(gaCall.result)

\* the i-th poll reported pending
PollPending(i) ==
  \/ polls[i].outcome = "pending"
  \/ polls[i].outcome = "threw" /\ polls[i].message = "ANALYSIS_PENDING"

\* the i-th poll was rate-limited
PollRateLimited(i) ==
  polls[i].outcome = "threw" /\ polls[i].message = "RATE_LIMIT_EXCEEDED"

\* C17: in waitForAnalysis, a poll that reports pending while attempts remain
\* does not end the call: the next poll follows it, POLLING_INTERVAL_MS later.
C17_PendingPollWaitsAndPollsAgain ==
  caller = "waitForAnalysis" =>
    /\ (pc = "done" /\ polls # <<>> /\ PollPending(Len(polls))) =>
         Len(polls) >= wfaMaxRetries
    /\ \A i \in 1..(Len(polls) - 1) :
         PollPending(i) => polls[i + 1].at - polls[i].at >= POLLING_INTERVAL_MS

\* C18: in waitForAnalysis, the poll that follows a rate-limited poll is made
\* 2 * POLLING_INTERVAL_MS after it.
C18_RateLimitedPollWaitsDouble ==
  caller = "waitForAnalysis" =>
    \A i \in 1..(Len(polls) - 1) :
      PollRateLimited(i) => polls[i + 1].at - polls[i].at = 2 * POLLING_INTERVAL_MS

\* waitForAnalysis has just caught RATE_LIMIT_EXCEEDED from getAnalysis
CatchesRateLimit ==
  /\ caller = "waitForAnalysis"
  /\ pc \in {"gaFirst", "gaFollow"}
  /\ pc' = "wfaLoop"
  /\ IsRateLimit(gaCall'.result)

\* C19, as claimed: in waitForAnalysis, a rate-limited poll leaves the number of
\* polls still allowed, maxRetries - retries, as it was.
C19_RateLimitKeepsBudget ==
  [][CatchesRateLimit => wfaMaxRetries' - retries' = wfaMaxRetries - retries]_vars

\* C19, amended: in waitForAnalysis, a rate-limited poll consumes one attempt of
\* the budget: the number of polls still allowed is one less after it, so that
\* at most maxRetries polls are made in all, rate-limited or not.
C19_RateLimitConsumesOneAttempt ==
  /\ [][CatchesRateLimit =>
          wfaMaxRetries' - retries' = (wfaMaxRetries - retries) - 1]_vars
  /\ [](caller = "waitForAnalysis" =>
          (Len(polls) <= wfaMaxRetries /\ retries <= wfaMaxRetries))

C19_Witness ==
  /\ caller = "waitForAnalysis"
  /\ wfaMaxRetries = MAX_RETRIES
  /\ Len(polls) = MAX_RETRIES
  /\ \A i \in 1..Len(polls) : PollRateLimited(i)
  /\ retries = MAX_RETRIES
  /\ pollOutcome = PollThrew("ANALYSIS_TIMEOUT", 0)

\* the i-th poll threw an error that says neither pending nor rate limit
PollFailed(i) ==
  /\ polls[i].outcome = "threw"
  /\ polls[i].message \notin {"ANALYSIS_PENDING", "RATE_LIMIT_EXCEEDED"}

\* C20: in waitForAnalysis, an error of a poll other than pending and rate limit
\* ends the call at once with that error: it is the last poll, and no time is
\* spent sleeping after it.
C20_OtherErrorsPropagateAtOnce ==
  caller = "waitForAnalysis" =>
    \A i \in 1..Len(polls) :
      PollFailed(i) =>
        /\ i = Len(polls)
        /\ pc = "done"
        /\ pollOutcome = gaCall.result
        /\ pollOutcome.kind = "threw"
        /\ pollOutcome.message = polls[i].message
        /\ calls.getAnalysis = Len(polls)
        /\ now = polls[i].at

C20_Witness ==
  /\ caller = "waitForAnalysis"
  /\ Len(polls) = 2
  /\ PollRateLimited(1)
  /\ PollFailed(2)
  /\ pollOutcome = PollThrew("AxiosError", 500)
  /\ sleeps = <<RateLimitDelayMs, POLLING_INTERVAL_MS>>
  /\ pc = "done"

\* every poll made so far reported pending or was rate-limited
NoPollCompletedOrFailed ==
  \A i \in 1..Len(polls) : PollPending(i) \/ PollRateLimited(i)

\* C21: provided every awaited call settles, waitForAnalysis(id, key, maxRetries)
\* ends; it makes at most maxRetries polls; and it ends with ANALYSIS_TIMEOUT
\* exactly when maxRetries polls were made and each of them reported pending or
\* rate limit, none completing.
C21_EndsInTimeoutAfterMaxRetriesPolls ==
  /\ <>(pc = "done")
  /\ [](caller = "waitForAnalysis" => Len(polls) <= wfaMaxRetries)
  /\ []((caller = "waitForAnalysis" /\ pc = "done") =>
          (pollOutcome = PollThrew("ANALYSIS_TIMEOUT", 0)
             <=> (Len(polls) = wfaMaxRetries /\ NoPollCompletedOrFailed)))

\* C22: the time waitForAnalysis spends sleeping (all the time that passes, a
\* request taking none) is at most maxRetries * POLLING_INTERVAL_MS when no poll
\* is rate-limited, and at most maxRetries * 2 * POLLING_INTERVAL_MS in every
\* execution.
C22_SleepBoundedByRetriesTimesInterval ==
  caller = "waitForAnalysis" =>
    /\ now <= wfaMaxRetries * 2 * POLLING_INTERVAL_MS
    /\ (\A i \in 1..Len(polls) : ~PollRateLimited(i)) =>
         now <= wfaMaxRetries * POLLING_INTERVAL_MS

TerminalVerdicts == {"clean", "malicious"}

\* C23: within one execution of uploadHandler, a verdict that has become clean or
\* malicious is never assigned again, and what storage is asked to keep and what
\* the answer reports after the scan is that verdict.
C23_TerminalVerdictImmutable ==
  /\ [][(verdict \in TerminalVerdicts) => (verdict' = verdict)]_vars
  /\ [](\A i \in 1..Len(stored) :
          /\ stored[i].verdict = verdict
          /\ stored[i].tags[1] = verdict
          /\ verdict \in TerminalVerdicts)
  /\ [](\A k \in 1..Len(responses) :
          (responses[k].verdict # "" /\ calls.scanFile > 0) =>
            (responses[k].verdict = verdict /\ verdict \in TerminalVerdicts))

C23_Witness ==
  /\ Finished
  /\ Len(polls) = 2
  /\ polls[1].outcome = "threw"
  /\ polls[2].outcome = "completed"
  /\ polls[2].malicious = 0
  /\ verdict = "clean"
  /\ Len(stored) = 1
  /\ stored[1].verdict = "clean"
  /\ responses = <<Response(200, "", "clean", "secure_url")>>

\* exactly 64 characters, each a decimal digit or a letter a to f in either case
SixtyFourHexDigits(s) ==
  /\ Len(s) = 64
  /\ \A i \in 1..Len(s) :
       s[i] \in {"0","1","2","3","4","5","6","7","8","9",
                 "a","b","c","d","e","f","A","B","C","D","E","F"}

\* C25: getAnalysis of part_001 chooses the endpoint by the format of the handle
\* alone: its first request is GET /files/{handle} exactly when the handle is 64
\* hex digits, and for every other handle its only request is
\* GET /analyses/{handle}; so a hash that scanFile returns for a file the service
\* knows is looked up as a file.
C25_RouteByHandleFormat ==
  (vtModule = "part_001" /\ gaCall.exchanges # <<>>) =>
    /\ gaCall.exchanges[1].ep = "GET /files" <=> SixtyFourHexDigits(handle)
    /\ gaCall.exchanges[1].ep \in {"GET /files", "GET /analyses"}
    /\ requests[1].target = handle
    /\ ~SixtyFourHexDigits(handle) =>
         /\ Len(gaCall.exchanges) = 1
         /\ \A i \in 1..Len(requests) :
              requests[i].ep = "GET /analyses" /\ requests[i].target = handle
    /\ handle \in ScanFileHashes =>
         /\ requests[1].ep = "GET /files"
         /\ \A i \in 1..Len(requests) :
              requests[i].ep = "GET /files" => requests[i].target = handle

C25_Witness ==
  /\ vtModule = "part_001"
  /\ handle = UpperCaseHash
  /\ Len(gaCall.exchanges) = 2
  /\ gaCall.exchanges[1].ep = "GET /files"
  /\ gaCall.exchanges[2].ep = "GET /analyses"
  /\ GaEnded

\* the handle scanFile returned has the form `file-${hash}`
ReturnedSynthetic ==
  scanOutcome.kind = "returned" /\ IsSyntheticId(scanOutcome.id)

UnauthenticatedAnswer == Response(401, "User authentication required", "", "-")

\* C27: an upload request that carries no user id is answered 401 with the error
\* 'User authentication required', whatever file it carries, and uploadHandler
\* calls neither scanFile nor getAnalysis nor storage for it.
C27_UnauthenticatedUploadRejected ==
  req.userId = NoUser =>
    /\ calls = [scanFile |-> 0, getAnalysis |-> 0, storage |-> 0]
    /\ requests = <<>>
    /\ stored = <<>>
    /\ pc \in {"start", "done"}
    /\ Finished => responses = <<UnauthenticatedAnswer>>

C27_Witness ==
  /\ Finished
  /\ req.userId = NoUser
  /\ req.file # NoFile
  /\ ExtOf(req.file) \in allowed
  /\ req.file.size <= SizeLimit
  /\ ~IsKnownMalicious(req.file.originalname)
  /\ responses = <<UnauthenticatedAnswer>>

\* who uploaded the resource with this public id
UploaderOf(publicId) == uploader[Len(publicId)]

\* the public ids issued so far
Issued == {PublicId(n) : n \in 1..Len(uploader)}

\* the latest request was a deleteFile that fetched the resource it names
DeleteFetched == lastOp.op = "deleteFile" /\ lastOp.fileInfo # NoFileInfo

\* C28: deleteFile calls destroy only when the requester's id is among the
\* file's tags or is the owner its context records; a request to delete a file
\* another user uploaded is answered 403 'You do not have permission to delete
\* this file' and destroy is not called.
C28_DeleteOnlyOwnFile ==
  lastOp.op = "deleteFile" =>
    /\ lastOp.destroyed # {} =>
         /\ lastOp.destroyed = {lastOp.fileId}
         /\ \/ TagsInclude(lastOp.fileInfo.tags, lastOp.by)
            \/ lastOp.by \in {lastOp.fileInfo.context.userId, lastOp.fileInfo.custom.userId}
    /\ (lastOp.fileId \in Issued /\ UploaderOf(lastOp.fileId) # lastOp.by) =>
         /\ lastOp.destroyed = {}
         /\ DeleteFetched =>
              /\ lastOp.status = 403
              /\ lastOp.error = "You do not have permission to delete this file"

C28_Witness ==
  /\ DeleteFetched
  /\ lastOp.status = 403
  /\ UploaderOf(lastOp.fileId) # lastOp.by
  /\ \E r \in store : r.public_id = lastOp.fileId

\* C29: whatever uploads, listings and deletions several users have made,
\* listAll answers a user only with files that user uploaded, and deleteFile
\* and deleteAllFiles call destroy on, and remove, only files the requester
\* uploaded.
C29_UsersIsolated ==
  /\ [](lastOp.op = "listAll" => \A f \in lastOp.files : UploaderOf(f.id) = lastOp.by)
  /\ [](\A id \in lastOp.destroyed : UploaderOf(id) = lastOp.by)
  /\ [][\A r \in store \ store' :
          /\ lastOp'.op \in {"deleteFile", "deleteAllFiles"}
          /\ UploaderOf(r.public_id) = lastOp'.by]_vars

C29_Witness ==
  /\ lastOp.op = "deleteAllFiles"
  /\ lastOp.destroyed # {}
  /\ \A r \in store : UploaderOf(r.public_id) # lastOp.by
  /\ store # {}

\* the resource a listed entry stands for
StoredAs(f) == CHOOSE r \in store : r.public_id = f.id

\* C30: in every entry listAll returns, the url is null exactly when the
\* reported verdict is 'malicious', and the reported verdict is 'malicious'
\* whenever the stored verdict is malicious or the original name contains a
\* known-malicious marker, whatever verdict was stored.
C30_ListedUrlNullIffMalicious ==
  (lastOp.op = "listAll" /\ lastOp.status = 200) =>
    \A f \in lastOp.files :
      /\ f.url = NullUrl <=> f.verdict = MaliciousText
      /\ \/ StoredAs(f).context.verdict = MaliciousText
         \/ \E name \in knownMaliciousNames :
              Includes(ToLowerCase(StoredAs(f).context.originalName), name)
         => f.verdict = MaliciousText

C30_Witness ==
  /\ lastOp.op = "listAll"
  /\ \E f \in lastOp.files :
       /\ StoredAs(f).context.verdict = CleanText
       /\ f.verdict = MaliciousText
       /\ f.url = NullUrl
  /\ \E f \in lastOp.files : f.url # NullUrl /\ f.verdict = CleanText

\* scanFile run alone on the answers a history holds: the outcome, and how many
\* answers it uses
AloneScanFile(h, answers) ==
  IF Len(answers) = 0 THEN [outcome |-> NoOutcome, used |-> 0]
  ELSE IF LookupFound(answers[1])
  THEN [outcome |-> ExistingId(answers[1], h), used |-> 1]
  ELSE IF Len(answers) = 1 THEN [outcome |-> NoOutcome, used |-> 1]
  ELSE IF answers[2].status = 200
  THEN [outcome |-> UploadedId(answers[2], h), used |-> 2]
  ELSE IF vtModule = "part_001"
  THEN [outcome |-> ScanCatchPart001(answers[2].status), used |-> 2]
  ELSE IF ~RetriesLookup(answers[2].status)
  THEN [outcome |-> HttpError(answers[2].status), used |-> 2]
  ELSE IF Len(answers) = 2 THEN [outcome |-> NoOutcome, used |-> 2]
  ELSE IF answers[3].status = 200
  THEN [outcome |-> Returned(answers[3].id), used |-> 3]
  ELSE IF answers[2].status = 409
  THEN [outcome |-> HttpError(answers[3].status), used |-> 3]
  ELSE [outcome |-> SyntheticFallback, used |-> 3]

\* the poll loop of uploadHandler run alone on the recorded results of
\* getAnalysis, from the i-th on: the verdict and the number of polls
RECURSIVE AlonePollLoop(_, _, _, _)
AlonePollLoop(results, i, count, v) ==
  IF ~(v = "pending" /\ count < maxRetries)
  THEN [verdict |-> IF v = "pending" THEN "clean" ELSE v, polls |-> i - 1]
  ELSE IF i > Len(results)
  THEN [verdict |-> "unfinished", polls |-> i - 1]
  ELSE IF \/ results[i].outcome = "threw"
          \/ results[i].outcome = "completed" /\ results[i].malicious < 0
  THEN (IF count >= maxRetries - 1
        THEN [verdict |-> "clean", polls |-> i]
        ELSE AlonePollLoop(results, i + 1, count + 1, v))
  ELSE IF results[i].outcome = "completed"
  THEN [verdict |-> IF results[i].malicious > 0 THEN "malicious" ELSE "clean",
        polls |-> i]
  ELSE AlonePollLoop(results, i + 1, count + 1, "pending")

\* the verdict and the number of polls of one execution that runs alone and
\* receives what this execution's histories hold
Alone(f) ==
  LET scan == AloneScanFile(Sha256Hex(f.req.file.buffer), f.scanAnswers)
  IN IF scan.outcome = NoOutcome \/ scan.used # Len(f.scanAnswers)
     THEN [verdict |-> "unfinished", polls |-> 0]
     ELSE IF scan.outcome.kind = "returned" /\ scan.outcome.id # NoId
     THEN AlonePollLoop(f.polls, 1, 0, "pending")
     ELSE [verdict |-> "clean", polls |-> 0]

\* the scan stage of the execution is over
ScanOver(f) == f.pc \in {"decide", "store", "done"} /\ f.calls.scanFile > 0

\* C24: when two uploadHandler executions are interleaved at their await
\* points, each execution's verdict and number of polls are those of an
\* execution that runs alone and receives the same answers.
C24_InterleavedAsAlone ==
  \A f \in {Frame, other} :
    ScanOver(f) =>
      /\ f.verdict = Alone(f).verdict
      /\ Len(f.polls) = Alone(f).polls

\* both executions polled more than once, each resumed while the other waited
C24_Witness ==
  /\ ScanOver(Frame) /\ ScanOver(other)
  /\ Len(polls) >= 2 /\ Len(other.polls) >= 2
  /\ verdict = "malicious"
  /\ other.verdict = "clean"
  /\ polls[2].at > 0 /\ other.polls[1].at = 0

\* requireAuth has returned or called next
AuthOver == auth.pc \in {"next", "done"}

\* the header is 'Bearer ', a token without a space, and possibly more after a space
BearerWithToken(h) ==
  /\ Len(h) > Len(BearerPrefix)
  /\ SubSeq(h, 1, Len(BearerPrefix)) = BearerPrefix
  /\ h[Len(BearerPrefix) + 1] # " "

\* C31: requireAuth calls next only for a Bearer token that the verification
\* accepts with a non-empty user id, and then req.userId is that id; in every
\* other case it sends exactly one 401 or 500 response and next is not called.
C31_NextOnlyForVerifiedBearer ==
  /\ auth.handled <= 1
  /\ Len(auth.replies) + auth.handled <= 1
  /\ auth.handled = 1 =>
       /\ BearerWithToken(auth.header)
       /\ auth.userId \in StoreUsers
       /\ auth.replies = <<>>
  /\ AuthOver =>
       \/ auth.handled = 1
       \/ /\ Len(auth.replies) = 1
          /\ auth.replies[1].status \in {401, 500}
          /\ auth.userId = <<>>
  /\ auth.pc = "verify" =>
       /\ BearerWithToken(auth.header)
       /\ \E n \in 1..Len(auth.header) :
            auth.token = SubSeq(auth.header, Len(BearerPrefix) + 1, n)

\* a verified bearer reached the handler
C31_Witness ==
  /\ auth.pc = "next"
  /\ auth.handled = 1
  /\ auth.userId # <<>>
  /\ auth.token = <<"e","y","J">>

\* the requests sent in the minute that begins with the i-th request
WithinMinuteFrom(i) ==
  {j \in i..Len(requests) : requests[j].at < requests[i].at + 60 * 1000}

\* C32: in any 60-second window, one resolve (scanFile followed by its polls)
\* sends at most 4 requests to the remote service.
C32_AtMostFourRequestsPerMinute ==
  \A i \in 1..Len(requests) : Cardinality(WithinMinuteFrom(i)) <= 4

\* C33: every verdict uploadHandler returns is 'clean' or 'malicious'; 'unknown'
\* and 'pending' are never returned to the client nor written to blob storage.
C33_OnlyCleanOrMaliciousLeaves ==
  /\ \A k \in 1..Len(responses) :
       /\ responses[k].verdict \in {"", "clean", "malicious"}
       /\ responses[k].status = 200 => responses[k].verdict \in TerminalVerdicts
  /\ \A i \in 1..Len(stored) :
       /\ stored[i].verdict \in TerminalVerdicts
       /\ stored[i].tags[1] \in TerminalVerdicts
  /\ pc \in {"decide", "store"} => verdict \in TerminalVerdicts

\* scanFile returned no id and the file was stored and answered as clean
C33_Witness ==
  /\ Finished
  /\ scanOutcome = Returned(NoId)
  /\ polls = <<>>
  /\ Len(stored) = 1 /\ stored[1].verdict = "clean"
  /\ Len(responses) = 1 /\ responses[1].verdict = "clean"

\* C34: one uploadHandler execution issues at most 3 polls and performs at most
\* 3 sleeps, each of 5 seconds, and issues no poll after a poll that returned a
\* completed result.
C34_AtMostThreePollsNoneAfterCompleted ==
  /\ Len(polls) <= 3
  /\ calls.getAnalysis <= 3
  /\ Len(sleeps) <= 3
  /\ \A i \in 1..Len(sleeps) : sleeps[i] = 5000
  /\ \A i \in 1..Len(polls) : polls[i].outcome = "completed" => i = Len(polls)
  /\ (polls # <<>> /\ polls[Len(polls)].outcome = "completed") => pc # "poll"

\* C35: every uploadHandler invocation ends, and when it has ended it has sent
\* exactly one response, on every path; it never sends two.
C35_ExactlyOneResponse ==
  /\ <>Finished
  /\ [](Len(responses) <= 1)
  /\ [](Finished <=> Len(responses) = 1)

\* the file was scanned and storage rejected it: one answer, the 400
C35_Witness ==
  /\ Finished
  /\ calls.storage = 1
  /\ responses = <<StorageFailedAnswer>>

\* the lookup of the call failed, with 404 or with any other error
LookupFailed == scanAnswers # <<>> /\ scanAnswers[1].status # 200

\* the uploads scanFile attempted
UploadAttempts == {i \in ScanRequests : requests[i].ep = "POST /files"}

\* the call ended as its upload did: with the id of the answer, or with its error
EndedAsUpload ==
  IF scanAnswers[2].status = 200
  THEN scanOutcome = Returned(scanAnswers[2].id)
  ELSE /\ scanOutcome.kind = "threw"
       /\ \/ scanOutcome.status = scanAnswers[2].status
          \/ scanAnswers[2].status = 429 /\ scanOutcome.message = "RATE_LIMIT_EXCEEDED"

\* C36 as stated: after a lookup that failed for any reason scanFile attempts
\* exactly one upload in the same call, and the call's outcome is the outcome
\* of that upload.
C36_FailedLookupEndsAsUpload ==
  (ScanEnded /\ LookupFailed) =>
    /\ Cardinality(UploadAttempts) = 1
    /\ requests[2].ep = "POST /files"
    /\ EndedAsUpload

\* C36, amended: after a lookup that failed for any reason scanFile attempts
\* exactly one upload in the same call, and the call's outcome is the outcome
\* of that upload, unless utils/virusTotal.js had the upload answered 409 or
\* 400, after which it retries the lookup.
C36_FailedLookupUploadsOnce ==
  /\ (LookupFailed /\ pc # "scanUpload") =>
       /\ Cardinality(UploadAttempts) = 1
       /\ requests[2].ep = "POST /files"
  /\ (ScanEnded /\ LookupFailed) =>
       IF vtModule = "virusTotal.js" /\ scanAnswers[2].status \in {409, 400}
       THEN Len(scanAnswers) = 3 /\ requests[3].ep = "GET /files"
       ELSE Len(scanAnswers) = 2 /\ EndedAsUpload

\* a rate-limited lookup was followed by an upload whose id the call returned
C36_Witness ==
  /\ ScanEnded
  /\ scanAnswers[1].status = 429
  /\ Len(scanAnswers) = 2
  /\ scanOutcome = Returned(AnalysisId)

\* getAnalysis of utils/virusTotal.js was called directly and has ended
OldGaEnded == vtModule = "virusTotal.js" /\ caller = "getAnalysis" /\ GaEnded

\* C37: getAnalysis of utils/virusTotal.js never throws: for every handle and
\* every remote outcome it returns a result, and for a synthetic handle (prefix
\* 'file-') the result is completed with malicious = 0, whatever the service
\* answers about the file.
C37_OldGetAnalysisNeverThrows ==
  /\ OldGaEnded =>
       /\ pc = "done"
       /\ gaCall.result.kind = "returned"
       /\ pollOutcome = gaCall.result
       /\ Len(requests) = 1
       /\ StartsWith(handle, <<"f","i","l","e","-">>) =>
            /\ gaCall.result.status = "completed"
            /\ gaCall.result.stats.malicious = 0
            /\ requests[1].ep = "GET /files"
  /\ (vtModule = "virusTotal.js" /\ caller = "getAnalysis") => pollOutcome.kind # "threw"

\* a synthetic handle for a file the service reports as detected
C37_Witness ==
  /\ OldGaEnded
  /\ StartsWith(handle, <<"f","i","l","e","-">>)
  /\ LastExchange.answer.status = 200
  /\ LastExchange.answer.stats.malicious > 0
  /\ gaCall.result.stats.malicious = 0

C39_NoRetriesNoPoll ==
  (caller = "waitForAnalysis" /\ wfaMaxRetries <= 0) =>
    /\ polls = <<>>
    /\ requests = <<>>
    /\ sleeps = <<>>
    /\ now = 0
    /\ calls.getAnalysis = 0
    /\ pc \in {"wfaLoop", "done"}
    /\ pc = "done" => pollOutcome = PollThrew("ANALYSIS_TIMEOUT", 0)

\* the call with a negative maxRetries has failed
C39_Witness ==
  /\ caller = "waitForAnalysis"
  /\ wfaMaxRetries < 0
  /\ pc = "done"
  /\ pollOutcome.kind = "threw"
  /\ pollOutcome.message = "ANALYSIS_TIMEOUT"

====
